---- MODULE Spec2Model ----
(***************************************************************************)
(* Model of brainium's argument resolvers and node naming:                 *)
(*   common/kwargparser.py  KwargParser   (schema + keymap, stateless)     *)
(*   common/kwargparse.py   KwargParse    (registry of handles, stateful)  *)
(*   common/generic.py      isinstances                                    *)
(*   nn/layers/layer.py     Layer.parse_args                               *)
(*   nn/model.py            Model.parse                                    *)
(*   nn/utils/term.py       Term       (the names of a node)               *)
(*   nn/utils/taxonomy.py   Taxonomy   (the same constructor)              *)
(*                                                                         *)
(* Python values are tagged records so that values of different Python     *)
(* types can be compared:                                                  *)
(*   [kind |-> "none"]                  None                               *)
(*   [kind |-> "scalar", v |-> n]       a number                           *)
(*   [kind |-> "dict",   items |-> f]   a dict, f a function on its keys   *)
(*   [kind |-> "list",   elems |-> s]   a list                             *)
(*   [kind |-> "parse",  containers |-> c]  a KwargParse object            *)
(*   [kind |-> "error",  type |-> t]    the exception a call raised        *)
(* Python dict equality ignores insertion order, so a dict value is a      *)
(* function.  Where insertion order decides the outcome (the key           *)
(* translation pass, the handles of a KwargParse) the dict is a sequence   *)
(* of <<key, value>> pairs with distinct keys.                             *)
(* Dict keys are strings; the Python keys None and the integer 0 that a    *)
(* KwargParseHandle accepts are the tokens None and Int0, and Float is a   *)
(* key of a type it rejects.  No key is the name of a parameter of parse   *)
(* (self, args, nested), which Python would bind instead of collecting.    *)
(***************************************************************************)
EXTENDS Integers, Sequences, FiniteSets, TLC

VARIABLES
    schema,         \* KwargParser._schema / the dict Layer.schema() returns (ordered)
    keymap,         \* KwargParser._keymap / the dict Layer.keymap() returns
    nested,         \* the nested argument of KwargParser.parse
    containers,     \* KwargParse.containers (ordered: name -> handle)
    taxonomy,       \* the names held by the node's Taxonomy / Term
    base,           \* the args argument of KwargParse.parse / the input_shape of build
    kwargs,         \* the keyword arguments of the call
    result,         \* what the call returned (or the error it raised)
    pc,             \* the operation that produced result
    name_uid_map,   \* the counters unique_name keeps, one per requested name
    terms,          \* the Term / Taxonomy objects constructed so far, in order
    layer,          \* the layer the last constructor built, with its attributes
    operators,      \* the Keras operators instantiated so far, in order
    threads         \* the constructions running concurrently: position and locals

vars == <<schema, keymap, nested, containers, taxonomy, base, kwargs, result, pc,
          name_uid_map, terms, layer, operators, threads>>

----------------------------------------------------------------------------
(* Bounds *)

MaxScalar == 2      \* scalar values are 1..MaxScalar
MaxHandles == 2     \* handles registered in one KwargParse

----------------------------------------------------------------------------
(* Python values *)

None == "<None>"
Int0 == "<0>"

S(n) == [kind |-> "scalar", v |-> n]
D(f) == [kind |-> "dict", items |-> f]
L(s) == [kind |-> "list", elems |-> s]
P(c) == [kind |-> "parse", containers |-> c]
Error(t) == [kind |-> "error", type |-> t]

NoneVal == [kind |-> "none"]

EmptyMap == [k \in {} |-> 0]
EmptyD == D(EmptyMap)
EmptyL == L(<<>>)

IsError(x) == x.kind = "error"

\* One key/value dict and two key/value dict.
D1(k, v) == D([x \in {k} |-> v])
D2(k1, v1, k2, v2) == D([x \in {k1, k2} |-> IF x = k1 THEN v1 ELSE v2])

Scalars == {S(n) : n \in 1..MaxScalar}

\* dict.get(k, default) on a function
Get(f, k, default) == IF k \in DOMAIN f THEN f[k] ELSE default

\* bool(k) of a key: the empty string, 0 and None are falsy
Truthy(k) == k \notin {"", Int0, None}

\* Ordered dicts: sequences of <<key, value>> with distinct keys.
Keys(od) == {od[i][1] : i \in DOMAIN od}
Order(od) == [i \in DOMAIN od |-> od[i][1]]
Items(od) == [k \in Keys(od) |-> od[CHOOSE i \in DOMAIN od : od[i][1] = k][2]]

RECURSIVE SetToSeq(_)
SetToSeq(s) ==
    IF s = {} THEN <<>>
    ELSE LET x == CHOOSE y \in s : TRUE IN <<x>> \o SetToSeq(s \ {x})

\* dict(d): an ordered dict holding the entries of the function f
Ordered(f) == LET ks == SetToSeq(DOMAIN f) IN [i \in DOMAIN ks |-> <<ks[i], f[ks[i]]>>]

----------------------------------------------------------------------------
(* common/generic.py *)

\* isinstances(x, dict, nst): types is dict at the only call site modelled.
RECURSIVE isinstances(_, _)
isinstances(x, nst) ==
    IF x.kind = "dict" /\ nst
        THEN \A k \in DOMAIN x.items : isinstances(x.items[k], nst)
    ELSE IF x.kind = "list" /\ nst
        THEN \A i \in DOMAIN x.elems : isinstances(x.elems[i], nst)
    ELSE x.kind = "dict"

----------------------------------------------------------------------------
(* common/kwargparser.py *)

\* KwargParser.__init__: dict(schema) if schema else dict().
\* dict() of a non-empty list that is not a list of pairs raises.
KwargParserRaises(sch) == sch.kind = "list" /\ sch.elems # <<>>

KwargParser(sch) == IF sch.kind = "dict" THEN Ordered(sch.items) ELSE <<>>

\* The dict comprehension on the last line of parse: keys are visited in
\* insertion order and a later entry replaces an earlier one with the same
\* translated key.
Swap(km, k) == IF k \in DOMAIN km THEN km[k] ELSE k

SwapKeys(order, args, km) ==
    LET out == {Swap(km, order[i]) : i \in DOMAIN order}
        last(o) == CHOOSE i \in DOMAIN order :
                      /\ Swap(km, order[i]) = o
                      /\ \A j \in DOMAIN order : Swap(km, order[j]) = o => j <= i
    IN D([o \in out |-> args[order[last(o)]]])

\* KwargParser.parse with the keymap applied before the overrides are
\* matched: a keyword is looked up under the translated name.
RECURSIVE KwargParser_parse_TranslateFirst(_, _, _, _)
KwargParser_parse_TranslateFirst(sch, km, nst, kw) ==
    LET args0 == Items(sch)
        temp == [k \in {n \in Keys(sch) : Swap(km, n) \in DOMAIN kw} |-> kw[Swap(km, k)]]
        checked(k) == isinstances(L(<<args0[k], temp[k]>>), TRUE) /\ nst
        inner(k) ==
            IF KwargParserRaises(args0[k]) THEN Error("ValueError")
            ELSE IF temp[k].kind # "dict" THEN Error("TypeError")
            ELSE KwargParser_parse_TranslateFirst(KwargParser(args0[k]), EmptyMap, FALSE,
                                                  temp[k].items)
        value(k) ==
            IF k \in DOMAIN temp
                THEN IF checked(k)
                        THEN inner(k)
                        ELSE temp[k]
                ELSE args0[k]
        args == [k \in Keys(sch) |-> value(k)]
    IN IF \E k \in Keys(sch) : IsError(args[k])
          THEN args[CHOOSE k \in Keys(sch) : IsError(args[k])]
          ELSE SwapKeys(Order(sch), args, km)

\* KwargParser(sch, km).parse(nested=nst, **kw); sch an ordered dict, kw a
\* function.  The result is a dict value or an Error.
RECURSIVE KwargParser_parse(_, _, _, _)
KwargParser_parse(sch, km, nst, kw) ==
    LET args0 == Items(sch)
        temp == [k \in Keys(sch) \cap DOMAIN kw |-> kw[k]]
        checked(k) == isinstances(L(<<args0[k], temp[k]>>), TRUE) /\ nst
        \* KwargParser(args[k]).parse(**temp[k]): nested is not passed on
        inner(k) ==
            IF KwargParserRaises(args0[k]) THEN Error("ValueError")
            ELSE IF temp[k].kind # "dict" THEN Error("TypeError")
            ELSE KwargParser_parse(KwargParser(args0[k]), EmptyMap, FALSE, temp[k].items)
        value(k) ==
            IF k \in DOMAIN temp
                THEN IF checked(k)
                        THEN inner(k)
                        ELSE temp[k]
                ELSE args0[k]
        args == [k \in Keys(sch) |-> value(k)]
    IN IF \E k \in Keys(sch) : IsError(args[k])
          THEN args[CHOOSE k \in Keys(sch) : IsError(args[k])]
          ELSE SwapKeys(Order(sch), args, km)

----------------------------------------------------------------------------
(* common/kwargparse.py *)

\* A name or key that is neither a string, an integer nor None.
Float == "<1.5>"

\* KwargParseHandle.__init__ without the assertion on the name.
KwargParseHandleRaises_KeyOnly(name, key) == key = Float

\* KwargParseHandle.__init__: the two assertions, then the assignment.
KwargParseHandleRaises(name, key) == name = Float \/ key = Float

KwargParseHandle(name, key, default) == [name |-> name, key |-> key, default |-> default]

\* dict.update({key: value}) on a function
Update(f, key, value) == [k \in DOMAIN f \cup {key} |-> IF k = key THEN value ELSE f[k]]

\* KwargParseInterface.parse: args if isinstance(args, dict) else dict()
InterfaceParse(args) == IF args.kind = "dict" THEN args.items ELSE EmptyMap

\* KwargParse.parse(args, **kw) with containers conts, and
\* KwargParseHandle.parse(args, **kw) of the handle h.  args is a function
\* here; the result is a dict value or an Error.
RECURSIVE KwargParse_parse(_, _, _)
RECURSIVE KwargParseHandle_parse(_, _, _)
\* KwargParseHandle.parse without the test of the name against None.
KwargParseHandle_parse_NoGuard(h, args, kw) ==
    LET key == IF Truthy(h.key) THEN h.key ELSE h.name
        flag == h.default.kind = "parse"
        over == Get(kw, h.name, EmptyD)
        value == IF flag
                   THEN IF over.kind # "dict"
                           THEN Error("TypeError")
                           ELSE KwargParse_parse(h.default.containers, NoneVal, over.items)
                   ELSE Get(kw, h.name, h.default)
    IN IF IsError(value) THEN value ELSE D(Update(args, key, value))

KwargParseHandle_parse(h, args, kw) ==
    IF h.name # None
        THEN LET key == IF Truthy(h.key) THEN h.key ELSE h.name
                 flag == h.default.kind = "parse"
                 over == Get(kw, h.name, EmptyD)
                 value == IF flag
                            THEN IF over.kind # "dict"
                                    THEN Error("TypeError")
                                    ELSE KwargParse_parse(h.default.containers, NoneVal, over.items)
                            ELSE Get(kw, h.name, h.default)
             IN IF IsError(value) THEN value ELSE D(Update(args, key, value))
        ELSE D(args)

RECURSIVE ParseHandles(_, _, _, _)
ParseHandles(conts, i, args, kw) ==
    IF i > Len(conts) THEN D(args)
    ELSE LET r == KwargParseHandle_parse(conts[i], args, kw)
         IN IF IsError(r) THEN r ELSE ParseHandles(conts, i + 1, r.items, kw)

KwargParse_parse(conts, args, kw) == ParseHandles(conts, 1, InterfaceParse(args), kw)

\* self.containers[name] = handle: an existing name keeps its position.
HasName(conts, name) == \E i \in DOMAIN conts : conts[i].name = name

KwargParse_add(conts, name, key, default) ==
    IF HasName(conts, name)
        THEN [i \in DOMAIN conts |->
                IF conts[i].name = name THEN KwargParseHandle(name, key, default) ELSE conts[i]]
        ELSE Append(conts, KwargParseHandle(name, key, default))

\* self.containers.pop(name)
KwargParse_remove(conts, name) == SelectSeq(conts, LAMBDA h : h.name # name)

----------------------------------------------------------------------------
(* nn/layers/layer.py *)

\* The dict f with the insertion order of the keys in order.
WithOrder(order, f) == [i \in DOMAIN order |-> <<order[i], f[order[i]]>>]

\* KwargParser(args).parse(nested=True, **over) as Layer.parse_args chains
\* it: args is the dict the previous step returned (it has the schema's
\* keys in the schema's order), over the mapping that is unpacked.
ParseArgsStep(order, args, over) ==
    IF IsError(args) THEN args
    ELSE IF over.kind # "dict" THEN Error("TypeError")
    ELSE KwargParser_parse(WithOrder(order, args.items), EmptyMap, TRUE, over.items)

\* Layer.parse_args with the keyword arguments resolved before the config
\* instead of after it.
Layer_parse_args_KeywordsFirst(sch, km, tax, kw) ==
    LET order == Order(sch)
        config == Get(kw, "_config", EmptyD)
        byKeywords == KwargParser_parse(sch, EmptyMap, TRUE, kw)
        byBasename == ParseArgsStep(order, byKeywords, Get(config.items, tax.basename, EmptyD))
        byProposal == ParseArgsStep(order, byBasename, Get(config.items, tax.proposal, EmptyD))
    IN IF config.kind # "dict" THEN Error("AttributeError")
       ELSE IF IsError(byProposal) THEN byProposal
       ELSE KwargParser_parse(WithOrder(order, byProposal.items), km, TRUE, config.items)

\* Layer.parse_args(**kw) of a layer whose schema() returns sch, whose
\* keymap() returns km and whose taxonomy is tax.
Layer_parse_args(sch, km, tax, kw) ==
    LET order == Order(sch)
        defaults == KwargParser_parse(sch, EmptyMap, TRUE, EmptyMap)
        config == Get(kw, "_config", EmptyD)
        byBasename == ParseArgsStep(order, defaults, Get(config.items, tax.basename, EmptyD))
        byProposal == ParseArgsStep(order, byBasename, Get(config.items, tax.proposal, EmptyD))
        byConfig == ParseArgsStep(order, byProposal, config)
    IN IF config.kind # "dict" THEN Error("AttributeError")
       ELSE IF IsError(byConfig) THEN byConfig
       ELSE KwargParser_parse(WithOrder(order, byConfig.items), km, TRUE, kw)

----------------------------------------------------------------------------
(* nn/model.py *)

\* args.update(other)
DictUpdate(f, g) == [k \in DOMAIN f \cup DOMAIN g |-> IF k \in DOMAIN g THEN g[k] ELSE f[k]]

\* The first element of the pair Model.parse returns: the merged keywords.
Model_args(term, kw) ==
    LET byBasename == Get(kw, term.basename, EmptyD)
        byFullname == Get(kw, term.fullname, EmptyD)
    IN IF "_conf" \in DOMAIN kw
          THEN IF byBasename.kind # "dict" \/ byFullname.kind # "dict"
                  THEN Error("TypeError")
                  ELSE D(DictUpdate(DictUpdate(kw, byBasename.items), byFullname.items))
          ELSE D(kw)

\* Model.parse(term, **kw) of a model whose kwargparser() holds conts.
Model_parse(conts, term, kw) ==
    LET args == Model_args(term, kw)
    IN IF IsError(args) THEN args
       ELSE LET parsed == KwargParse_parse(conts, NoneVal, args.items)
            IN IF IsError(parsed) THEN parsed
               ELSE [kind |-> "tuple", args |-> args, parsed |-> parsed]

----------------------------------------------------------------------------
(* nn/utils/term.py, nn/utils/taxonomy.py                                  *)
(*                                                                         *)
(* Names are sequences of one-character strings, so that joining,          *)
(* splitting and case conversion are computed; <<>> is the empty string    *)
(* and also stands for None where a prefix or a name is not given.         *)
(* snake_case and unique_name are the Keras functions term.py imports      *)
(* (generic_utils.to_snake_case, backend.unique_object_name); they follow  *)
(* the library: with zero_based=False the numbering is one-based, the      *)
(* n-th request for a name returns name_n.                                 *)

UpperLetters == <<"A", "B", "C", "D", "E", "F", "G", "H", "I", "J", "K", "L", "M",
                  "N", "O", "P", "Q", "R", "S", "T", "U", "V", "W", "X", "Y", "Z">>
LowerLetters == <<"a", "b", "c", "d", "e", "f", "g", "h", "i", "j", "k", "l", "m",
                  "n", "o", "p", "q", "r", "s", "t", "u", "v", "w", "x", "y", "z">>

UpperChars == {UpperLetters[i] : i \in DOMAIN UpperLetters}
LowerChars == {LowerLetters[i] : i \in DOMAIN LowerLetters}
DigitChars == {"0", "1", "2", "3", "4", "5", "6", "7", "8", "9"}

Digits == <<"0", "1", "2", "3", "4", "5", "6", "7", "8", "9">>

\* str(n) of a natural number
RECURSIVE str(_)
str(n) == IF n < 10 THEN <<Digits[n + 1]>> ELSE str(n \div 10) \o <<Digits[(n % 10) + 1]>>

\* c.lower()
lower(c) ==
    IF c \in UpperChars
        THEN LowerLetters[CHOOSE i \in DOMAIN UpperLetters : UpperLetters[i] = c]
        ELSE c

Min(set) == CHOOSE x \in set : \A y \in set : x <= y
Max(set) == CHOOSE x \in set : \A y \in set : y <= x

\* re.sub('(.)([A-Z][a-z0-9]+)', r'\1_\2', s), for the part of s from p on:
\* the leftmost match starts at the least i with an upper-case letter at
\* i + 1 and a lower-case letter or digit at i + 2, and runs to the end of
\* the lower-case letters and digits.
RECURSIVE CamelWords(_, _)
CamelWords(s, p) ==
    LET small == LowerChars \cup DigitChars
        starts == {i \in p..(Len(s) - 2) : s[i + 1] \in UpperChars /\ s[i + 2] \in small}
    IN IF starts = {} THEN SubSeq(s, p, Len(s))
       ELSE LET i == Min(starts)
                e == Max({x \in (i + 2)..Len(s) : \A y \in (i + 2)..x : s[y] \in small})
            IN SubSeq(s, p, i) \o <<"_">> \o SubSeq(s, i + 1, e) \o CamelWords(s, e + 1)

\* re.sub('([a-z])([A-Z])', r'\1_\2', s), for the part of s from p on
RECURSIVE CamelBoundaries(_, _)
CamelBoundaries(s, p) ==
    LET starts == {i \in p..(Len(s) - 1) : s[i] \in LowerChars /\ s[i + 1] \in UpperChars}
    IN IF starts = {} THEN SubSeq(s, p, Len(s))
       ELSE LET i == Min(starts)
            IN SubSeq(s, p, i) \o <<"_">> \o <<s[i + 1]>> \o CamelBoundaries(s, i + 2)

\* to_snake_case(name)
snake_case(name) ==
    LET intermediate == CamelWords(name, 1)
        bounded == CamelBoundaries(intermediate, 1)
        insecure == [i \in DOMAIN bounded |-> lower(bounded[i])]
    IN IF insecure[1] # "_" THEN insecure
       ELSE <<"p", "r", "i", "v", "a", "t", "e">> \o insecure

\* unique_object_name with zero-based numbering: the first request for a
\* name returns the name itself, the later ones name_1, name_2, ...
unique_name_ZeroBased(uids, name) ==
    IF Get(uids, name, 0) = 0 THEN name ELSE name \o <<"_">> \o str(Get(uids, name, 0))

\* unique_name(name, zero_based=False): the counter of the name is raised
\* and the name returned is name_<counter>.
unique_name(uids, name) == name \o <<"_">> \o str(Get(uids, name, 0) + 1)

\* The counters after unique_name(name).
Counted(uids, name) == Update(uids, name, Get(uids, name, 0) + 1)

\* s.split(sep)[-1]
LastSplit(s, sep) ==
    LET at == {i \in DOMAIN s : s[i] = sep}
    IN IF at = {} THEN s ELSE SubSeq(s, Max(at) + 1, Len(s))

\* The name Term.__init__ asks unique_name for: the snake-cased name (the
\* class name of obj when no name is given), qualified by the prefix.
Term_basename(obj, name) == snake_case(IF name # <<>> THEN name ELSE obj)

Term_requested(obj, prefix, name) ==
    IF prefix # <<>> THEN prefix \o <<".">> \o Term_basename(obj, name)
                     ELSE Term_basename(obj, name)

\* Term.__init__ / Taxonomy.__init__ (the two bodies are the same): the
\* attributes of the object built when the counters are uids.
Term(uids, obj, prefix, name) ==
    LET basename == Term_basename(obj, name)
        fullname == unique_name(uids, Term_requested(obj, prefix, name))
        proposal == LastSplit(fullname, ".")
        suffix == LastSplit(proposal, "_")
    IN [prefix |-> prefix,
        basename |-> basename,
        fullname |-> fullname,
        proposal |-> proposal,
        suffix |-> IF suffix # basename THEN suffix ELSE <<>>]

----------------------------------------------------------------------------
(* Specification of KwargParser.parse: inputs drawn in Init, one call. *)

ParserNames == {"a", "b"}

\* Default values a schema declares and values a caller passes.
SchemaVals ==
    {S(1), EmptyD, EmptyL,
     D2("x", S(1), "y", S(2)),
     D2("x", EmptyD, "y", EmptyD),
     D1("m", D2("x", EmptyD, "y", EmptyD))}

OverrideVals ==
    Scalars \cup
    {EmptyD, EmptyL,
     D1("x", S(3)),
     D1("x", EmptyD),
     D1("m", D1("x", EmptyD))}

\* Ordered dicts over the keys ks with values in vs.
OrderedDicts(ks, vs) ==
    {od \in UNION {[1..n -> ks \X vs] : n \in 0..Cardinality(ks)} :
        \A i, j \in DOMAIN od : i # j => od[i][1] # od[j][1]}

\* Dicts (functions) over subsets of ks with values in vs.
Dicts(ks, vs) == UNION {[sub -> vs] : sub \in SUBSET ks}

\* Keyword arguments for the names ns, with or without a keyword "c" that
\* no schema declares.
Overrides(ns) ==
    {[k \in DOMAIN f \cup u |-> IF k \in DOMAIN f THEN f[k] ELSE S(1)] :
        f \in Dicts(ns, OverrideVals), u \in {{}, {"c"}}}

ParserKeymaps == Dicts(ParserNames, {"k", "b"})

\* The keyword arguments of a call of KwargParser.parse: as above, or with a
\* keyword under "k", a name the keymap translates to.
ParserOverrides ==
    Overrides(ParserNames) \cup
    {[k \in DOMAIN f \cup {"k"} |-> IF k \in DOMAIN f THEN f[k] ELSE S(1)] :
        f \in Dicts(ParserNames, OverrideVals)}

InitParser ==
    /\ name_uid_map = EmptyMap
    /\ terms = <<>>
    /\ layer = NoneVal
    /\ operators = <<>>
    /\ threads = <<>>
    /\ containers = <<>>
    /\ taxonomy = [basename |-> "", proposal |-> "", fullname |-> ""]
    /\ base = NoneVal
    /\ result = NoneVal
    /\ pc = "init"
    /\ schema \in OrderedDicts(ParserNames, SchemaVals)
    /\ keymap \in ParserKeymaps
    /\ nested \in BOOLEAN
    /\ kwargs \in ParserOverrides

ParserParse ==
    /\ pc = "init"
    /\ result' = KwargParser_parse(schema, keymap, nested, kwargs)
    /\ pc' = "KwargParser.parse"
    /\ UNCHANGED <<schema, keymap, nested, containers, taxonomy, base, kwargs, name_uid_map, terms,
                 layer, operators, threads>>

NextParser == ParserParse

SpecParser == InitParser /\ [][NextParser]_vars

\* No other schema name is translated to the key of n.
OwnKey(n) == \A m \in Keys(schema) \ {n} : Swap(keymap, m) # Swap(keymap, n)

\* The schema names the caller overrides where the default and the override
\* are both mappings.
BothMappings ==
    {n \in Keys(schema) \cap DOMAIN kwargs :
        Items(schema)[n].kind = "dict" /\ kwargs[n].kind = "dict"}

\* C4: with nested=True, when the default and the override of a name are
\* both mappings, the output value is the default mapping overlaid with the
\* override: a key of the default that the override lacks keeps its default
\* value, a key of both whose override is not a mapping takes the override.
C4_MappingsAreMerged ==
    (pc = "KwargParser.parse" /\ nested /\ ~IsError(result)) =>
        \A n \in BothMappings :
            OwnKey(n) =>
                LET d == Items(schema)[n].items
                    o == kwargs[n].items
                    out == result.items[Swap(keymap, n)]
                IN /\ out.kind = "dict"
                   /\ \A x \in DOMAIN d \ DOMAIN o :
                        x \in DOMAIN out.items /\ out.items[x] = d[x]
                   /\ \A x \in DOMAIN d \cap DOMAIN o :
                        o[x].kind # "dict" =>
                            x \in DOMAIN out.items /\ out.items[x] = o[x]

\* C5: with nested=True the merge is applied at every depth: where the
\* default and the override of a name are mappings and hold, under the same
\* key m, mappings again, the output under m is the default's inner mapping
\* overlaid with the override's: an inner key the override lacks keeps its
\* default value.
C5_MergeAtEveryDepth ==
    (pc = "KwargParser.parse" /\ nested /\ ~IsError(result)) =>
        \A n \in BothMappings :
            OwnKey(n) =>
                LET d == Items(schema)[n].items
                    o == kwargs[n].items
                    out == result.items[Swap(keymap, n)]
                IN \A m \in DOMAIN d \cap DOMAIN o :
                    (d[m].kind = "dict" /\ o[m].kind = "dict") =>
                        /\ out.kind = "dict" /\ m \in DOMAIN out.items
                        /\ out.items[m].kind = "dict"
                        /\ \A y \in DOMAIN d[m].items \ DOMAIN o[m].items :
                              /\ y \in DOMAIN out.items[m].items
                              /\ out.items[m].items[y] = d[m].items[y]

----------------------------------------------------------------------------
(* Specification of Layer.parse_args: one layer, one call. *)

LayerNames == {"a", "b"}

LayerDefaults == {S(1), EmptyD, D1("x", EmptyD)}

\* Values a config section, the top-level config or the caller gives "a".
LayerVals == Scalars \cup {EmptyD, EmptyL}

LayerTaxonomies ==
    {[basename |-> "re_lu", proposal |-> "re_lu", fullname |-> "re_lu"],
     [basename |-> "re_lu", proposal |-> "re_lu_1", fullname |-> "re_lu_1"]}

\* Either no entry or an entry k: v with v in vs.
Maybe(k, vs) == {EmptyMap} \cup {[x \in {k} |-> v] : v \in vs}

\* The _config mappings for a layer with taxonomy tax: an entry for "a" at
\* the top level, in the section named tax.basename and in the section
\* named tax.proposal, each present or not.
LayerConfigs(tax) ==
    {D(DictUpdate(DictUpdate(top, sb), sp)) :
        top \in Maybe("a", LayerVals),
        sb \in Maybe(tax.basename, {D(f) : f \in Maybe("a", LayerVals) \ {EmptyMap}}),
        sp \in Maybe(tax.proposal, {D(f) : f \in Maybe("a", LayerVals) \ {EmptyMap}})}

InitLayer ==
    /\ name_uid_map = EmptyMap
    /\ terms = <<>>
    /\ layer = NoneVal
    /\ operators = <<>>
    /\ threads = <<>>
    /\ containers = <<>>
    /\ base = NoneVal
    /\ result = NoneVal
    /\ pc = "init"
    /\ nested = TRUE
    /\ taxonomy \in LayerTaxonomies
    /\ schema \in {od \in OrderedDicts(LayerNames, LayerDefaults) : "a" \in Keys(od)}
    /\ keymap \in Dicts(LayerNames, {"k"})
    /\ \E explicit \in Maybe("a", LayerVals), cs \in Maybe("_config", LayerConfigs(taxonomy)) :
          kwargs = DictUpdate(explicit, cs)

LayerParseArgs ==
    /\ pc = "init"
    /\ result' = Layer_parse_args(schema, keymap, taxonomy, kwargs)
    /\ pc' = "Layer.parse_args"
    /\ UNCHANGED <<schema, keymap, nested, containers, taxonomy, base, kwargs, name_uid_map, terms,
                 layer, operators, threads>>

NextLayer == LayerParseArgs

SpecLayer == InitLayer /\ [][NextLayer]_vars

\* The value _config gives the name n at the top level / in the section sec.
HasConfig == "_config" \in DOMAIN kwargs
Config == kwargs["_config"].items
InTop(n) == HasConfig /\ n \in DOMAIN Config
InSection(sec, n) == HasConfig /\ sec \in DOMAIN Config /\ n \in DOMAIN Config[sec].items
SectionValues(n) ==
    {Config[sec].items[n] : sec \in {x \in {taxonomy.basename, taxonomy.proposal} : InSection(x, n)}}
SourceValues(n) ==
    SectionValues(n) \cup (IF InTop(n) THEN {Config[n]} ELSE {}) \cup {Items(schema)[n]}

\* No name that comes later in the schema is translated to the key of n.
NoLaterSameKey(n) ==
    \A i, j \in DOMAIN schema :
        (schema[i][1] = n /\ j > i) => Swap(keymap, schema[j][1]) # Swap(keymap, n)

\* C1: a value a nested config section (_config[basename] or
\* _config[proposal]) gives a schema name wins over the schema default and
\* over the entry of the same name at the top level of _config; only an
\* explicit keyword overrides it.  Stated for scalar values, where no merge
\* of mappings is involved.
C1_SectionBeatsTopLevel ==
    pc = "Layer.parse_args" =>
        \A n \in Keys(schema) :
            (/\ n \notin DOMAIN kwargs
             /\ SectionValues(n) # {}
             /\ \A v \in SourceValues(n) : v.kind = "scalar"
             /\ NoLaterSameKey(n))
            => /\ result.kind = "dict"
               /\ result.items[Swap(keymap, n)] \in SectionValues(n)

----------------------------------------------------------------------------
(* Specification of Model.parse: one model, one call. *)

\* The resolvers a model's kwargparser() returns: Model's own is empty, a
\* subclass registers its arguments.
ModelParsers ==
    {<<>>,
     <<KwargParseHandle("a", None, S(1))>>,
     <<KwargParseHandle("a", "k", S(1))>>}

ModelTerms ==
    {[basename |-> "model", proposal |-> "model", fullname |-> "model"],
     [basename |-> "model", proposal |-> "model_1", fullname |-> "model_1"],
     [basename |-> "model", proposal |-> "model", fullname |-> "net.model"]}

ModelSections == {D1("a", v) : v \in Scalars} \cup {EmptyD}

InitModel ==
    /\ name_uid_map = EmptyMap
    /\ terms = <<>>
    /\ layer = NoneVal
    /\ operators = <<>>
    /\ threads = <<>>
    /\ schema = <<>>
    /\ keymap = EmptyMap
    /\ nested = FALSE
    /\ base = NoneVal
    /\ result = NoneVal
    /\ pc = "init"
    /\ containers \in ModelParsers
    /\ taxonomy \in ModelTerms
    /\ \E conf \in Maybe("_conf", {S(1)}), explicit \in Maybe("a", Scalars),
          sb \in Maybe(taxonomy.basename, ModelSections),
          sf \in Maybe(taxonomy.fullname, ModelSections) :
          kwargs = DictUpdate(DictUpdate(DictUpdate(conf, explicit), sb), sf)

ModelParse ==
    /\ pc = "init"
    /\ result' = Model_parse(containers, taxonomy, kwargs)
    /\ pc' = "Model.parse"
    /\ UNCHANGED <<schema, keymap, nested, containers, taxonomy, base, kwargs, name_uid_map, terms,
                 layer, operators, threads>>

NextModel == ModelParse

SpecModel == InitModel /\ [][NextModel]_vars

\* The keywords of the call that are not the config switch or a section.
ExplicitNames == DOMAIN kwargs \ {"_conf", taxonomy.basename, taxonomy.fullname}

\* C3: in Model.parse a value passed as an explicit keyword is never
\* overwritten by the value the basename section or the fullname section
\* gives the same name, and the fullname section wins over the basename
\* section.
C3_ExplicitNeverOverwritten ==
    (pc = "Model.parse" /\ result.kind = "tuple") =>
        /\ \A n \in ExplicitNames : result.args.items[n] = kwargs[n]
        /\ \A n \in DOMAIN Get(kwargs, taxonomy.fullname, EmptyD).items \ ExplicitNames :
              "_conf" \in DOMAIN kwargs =>
                  result.args.items[n] = kwargs[taxonomy.fullname].items[n]

----------------------------------------------------------------------------
(* Specification of KwargParse: one resolver, any sequence of add, remove *)
(* and parse calls.                                                       *)

HandleNames == {"a", "b", None, Float}
HandleKeys == {None, "k", Int0, Float}

\* A resolver registered as the default of a handle.
NestedParse == P(<<KwargParseHandle("x", None, S(1))>>)

HandleDefaults == {S(1), NestedParse}

ParseVals == {S(MaxScalar), D1("x", S(MaxScalar))}
ParseBases == {NoneVal, D1("q", S(1))}

\* Keyword arguments for "a" and "b", with or without a keyword "c" that no
\* handle is registered for.
ParseOverrides ==
    {[k \in DOMAIN f \cup u |-> IF k \in DOMAIN f THEN f[k] ELSE S(1)] :
        f \in Dicts({"a", "b"}, ParseVals), u \in {{}, {"c"}}}

Init ==
    /\ name_uid_map = EmptyMap
    /\ terms = <<>>
    /\ layer = NoneVal
    /\ operators = <<>>
    /\ threads = <<>>
    /\ schema = <<>>
    /\ keymap = EmptyMap
    /\ nested = FALSE
    /\ taxonomy = [basename |-> "", proposal |-> "", fullname |-> ""]
    /\ containers = <<>>
    /\ base = NoneVal
    /\ kwargs = EmptyMap
    /\ result = NoneVal
    /\ pc = "init"

\* KwargParse.add(name, key, default): the handle's constructor may raise
\* before anything is stored; add returns the resolver itself.
Add(name, key, default) ==
    /\ \/ KwargParseHandleRaises(name, key)
       \/ HasName(containers, name)
       \/ Len(containers) < MaxHandles
    /\ containers' = IF KwargParseHandleRaises(name, key)
                        THEN containers
                        ELSE KwargParse_add(containers, name, key, default)
    /\ result' = IF KwargParseHandleRaises(name, key)
                    THEN Error("AssertionError")
                    ELSE P(containers')
    /\ kwargs' = [name |-> name, key |-> key, default |-> default]
    /\ base' = NoneVal
    /\ pc' = "KwargParse.add"
    /\ UNCHANGED <<schema, keymap, nested, taxonomy, name_uid_map, terms,
                 layer, operators, threads>>

\* KwargParse.remove(name): pop raises KeyError for a name that is not there.
Remove(name) ==
    /\ containers' = KwargParse_remove(containers, name)
    /\ result' = IF HasName(containers, name) THEN P(containers') ELSE Error("KeyError")
    /\ kwargs' = [name |-> name]
    /\ base' = NoneVal
    /\ pc' = "KwargParse.remove"
    /\ UNCHANGED <<schema, keymap, nested, taxonomy, name_uid_map, terms,
                 layer, operators, threads>>

\* KwargParse.parse that keeps each override it resolves as the new default
\* of the handle.
Parse_StoresOverride(args, kw) ==
    /\ result' = KwargParse_parse(containers, args, kw)
    /\ containers' = [i \in DOMAIN containers |->
                        LET h == containers[i]
                        IN IF h.name \in DOMAIN kw /\ h.default.kind # "parse"
                              THEN KwargParseHandle(h.name, h.key, kw[h.name])
                              ELSE h]
    /\ kwargs' = kw
    /\ base' = args
    /\ pc' = "KwargParse.parse"
    /\ UNCHANGED <<schema, keymap, nested, taxonomy, name_uid_map, terms,
                 layer, operators, threads>>

\* KwargParse.parse(args, **kw)
Parse(args, kw) ==
    /\ result' = KwargParse_parse(containers, args, kw)
    /\ kwargs' = kw
    /\ base' = args
    /\ pc' = "KwargParse.parse"
    /\ UNCHANGED <<schema, keymap, nested, taxonomy, containers, name_uid_map, terms,
                 layer, operators, threads>>

Next ==
    \/ \E name \in HandleNames, key \in HandleKeys, default \in HandleDefaults :
          Add(name, key, default)
    \/ \E name \in HandleNames : Remove(name)
    \/ \E args \in ParseBases, kw \in ParseOverrides : Parse(args, kw)

Spec == Init /\ [][Next]_vars

----------------------------------------------------------------------------
(* Specification of both resolvers: a KwargParser resolved once, or, where *)
(* no KwargParser was constructed, a KwargParse driven through add, remove *)
(* and parse.                                                              *)

InitResolvers == InitParser

NoParser == schema = <<>> /\ keymap = EmptyMap /\ ~nested /\ pc # "KwargParser.parse"

NextResolvers ==
    \/ ParserParse
    \/ (NoParser /\ (pc = "init" => kwargs = EmptyMap) /\ Next)

SpecResolvers == InitResolvers /\ [][NextResolvers]_vars

----------------------------------------------------------------------------
(* Properties of KwargParse *)

\* The handles that resolve something, and the output key a handle declares.
Named == {i \in DOMAIN containers : containers[i].name # None}
DeclaredKey(h) == IF h.key # None THEN h.key ELSE h.name

\* No other handle declares the output key of handle i.
OwnDeclaredKey(i) ==
    \A j \in Named \ {i} : DeclaredKey(containers[j]) # DeclaredKey(containers[i])

\* What a handle resolves to when the caller says nothing about it.
DefaultOf(h) ==
    IF h.default.kind = "parse"
        THEN KwargParse_parse(h.default.containers, NoneVal, EmptyMap)
        ELSE h.default

\* C6: a name registered with a non-mapping default and overridden by the
\* caller resolves to the override value under the declared external key
\* (under the name when no external key is declared).
C6_OverrideWins ==
    (pc = "KwargParse.parse" /\ ~IsError(result)) =>
        \A i \in Named :
            LET h == containers[i]
            IN (h.default.kind = "scalar" /\ h.name \in DOMAIN kwargs /\ OwnDeclaredKey(i))
               => /\ DeclaredKey(h) \in DOMAIN result.items
                  /\ result.items[DeclaredKey(h)] = kwargs[h.name]

\* C7: resolving with no overrides (and no base mapping) returns exactly the
\* declared defaults, each under its external key, or under its name when
\* no external key is declared.
C7_DefaultsOnly ==
    (pc = "KwargParse.parse" /\ kwargs = EmptyMap /\ base = NoneVal) =>
        /\ result.kind = "dict"
        /\ DOMAIN result.items = {DeclaredKey(containers[i]) : i \in Named}
        /\ \A i \in Named :
              OwnDeclaredKey(i) =>
                  result.items[DeclaredKey(containers[i])] = DefaultOf(containers[i])

\* C8: parse never raises, whatever the types of the override values, and
\* a name the caller does not override takes its declared default.
C8_ParseNeverFails ==
    pc = "KwargParse.parse" =>
        /\ result.kind = "dict"
        /\ \A i \in Named :
              LET h == containers[i]
                  key == IF Truthy(h.key) THEN h.key ELSE h.name
              IN (h.name \notin DOMAIN kwargs
                    /\ \A j \in Named : j > i =>
                          (IF Truthy(containers[j].key) THEN containers[j].key
                                                        ELSE containers[j].name) # key)
                 => result.items[key] = DefaultOf(h)

\* C9: a handle whose external key is declared (not None) resolves under
\* that key and not under its name.
C9_DeclaredKeyIsOutputKey ==
    (pc = "KwargParse.parse" /\ ~IsError(result) /\ base = NoneVal) =>
        \A i \in Named :
            LET h == containers[i]
            IN (h.key # None /\ OwnDeclaredKey(i))
               => /\ h.key \in DOMAIN result.items
                  /\ (h.name \in DOMAIN result.items =>
                        \E j \in Named : DeclaredKey(containers[j]) = h.name)

\* C10: every registered name other than None contributes its own entry, so
\* the output (resolved without a base mapping) has one entry per
\* registered name and no handle's value is shadowed by another handle's.
C10_OneEntryPerName ==
    (pc = "KwargParse.parse" /\ ~IsError(result) /\ base = NoneVal) =>
        Cardinality(DOMAIN result.items) = Cardinality(Named)

\* No later schema name is translated to the key of n.
LastWithKey(n) ==
    \A i, j \in DOMAIN schema :
        (schema[i][1] = n /\ Swap(keymap, schema[j][1]) = Swap(keymap, n)) => j <= i

\* C12: key translation is a final pass of KwargParser.parse: the output
\* keys are the schema names renamed through the keymap; a name the caller
\* does not pass under its logical name keeps its default even when a
\* keyword is passed under its translated name, and a scalar passed under
\* the logical name is the value under the translated key.
C12_TranslationIsFinalPass ==
    (pc = "KwargParser.parse" /\ ~IsError(result)) =>
        /\ DOMAIN result.items = {Swap(keymap, n) : n \in Keys(schema)}
        /\ \A n \in Keys(schema) :
              LastWithKey(n) =>
                  /\ n \notin DOMAIN kwargs =>
                        result.items[Swap(keymap, n)] = Items(schema)[n]
                  /\ (n \in DOMAIN kwargs /\ kwargs[n].kind = "scalar") =>
                        result.items[Swap(keymap, n)] = kwargs[n]

\* A keyword passed under the translated name "k" of a name that is not
\* passed itself, with a value other than the default: the default is kept.
C12_Witness ==
    /\ pc = "KwargParser.parse"
    /\ ~IsError(result)
    /\ \E n \in Keys(schema) \cap DOMAIN keymap :
          /\ keymap[n] = "k"
          /\ "k" \in DOMAIN kwargs
          /\ n \notin DOMAIN kwargs
          /\ kwargs["k"] # Items(schema)[n]
          /\ result.items["k"] = Items(schema)[n]

OutputKey(h) == IF Truthy(h.key) THEN h.key ELSE h.name

\* The handle registered under name.
HandleOf(conts, name) == conts[CHOOSE i \in DOMAIN conts : conts[i].name = name]

\* C14: remove(L) of a registered name L returns the resolver, leaves the
\* other handles as they were, and a resolve after it omits the key L
\* resolved under; remove of a name that is not registered fails with
\* KeyError and leaves the handles unchanged.
C14_RemoveOmitsKey ==
    [][pc' = "KwargParse.remove" =>
          LET name == kwargs'.name
          IN IF HasName(containers, name)
                THEN /\ result' = P(containers')
                     /\ ~HasName(containers', name)
                     /\ containers' = SelectSeq(containers, LAMBDA h : h.name # name)
                     /\ name # None =>
                           OutputKey(HandleOf(containers, name)) \notin
                               DOMAIN KwargParse_parse(containers', NoneVal, EmptyMap).items
                ELSE /\ result' = Error("KeyError")
                     /\ containers' = containers]_vars

\* C15: add returns the resolver it was called on and keeps one handle per
\* name; after a second add of a registered name L with key E2 and default
\* D2, resolving with no overrides yields D2 under E2 (under L when E2 is
\* None), and the key of the first registration is emitted only if a
\* handle that is still registered declares it.
C15_AddOverwrites ==
    [][(pc' = "KwargParse.add" /\ ~IsError(result')) =>
          LET h2 == kwargs'
              out == KwargParse_parse(containers', NoneVal, EmptyMap).items
          IN /\ result' = P(containers')
             /\ Cardinality({i \in DOMAIN containers' : containers'[i].name = h2.name}) = 1
             /\ HandleOf(containers', h2.name) = KwargParseHandle(h2.name, h2.key, h2.default)
             /\ (HasName(containers, h2.name) /\ h2.name # None) =>
                   /\ DeclaredKey(h2) \in DOMAIN out
                   /\ out[DeclaredKey(h2)] = DefaultOf(h2)
                   /\ OutputKey(HandleOf(containers, h2.name)) \in DOMAIN out =>
                         \E i \in DOMAIN containers' :
                             /\ containers'[i].name # None
                             /\ DeclaredKey(containers'[i]) =
                                    OutputKey(HandleOf(containers, h2.name))]_vars

\* C16: add with a name that is neither a string, an integer nor None fails
\* with AssertionError; a failed add leaves the handles as they were; add
\* with a valid name (and a valid key) does not fail and registers the name.
C16_NameTypeCheck ==
    [][pc' = "KwargParse.add" =>
          /\ kwargs'.name = Float =>
                (result' = Error("AssertionError") /\ containers' = containers)
          /\ IsError(result') => containers' = containers
          /\ (kwargs'.name # Float /\ kwargs'.key # Float) =>
                (~IsError(result') /\ HasName(containers', kwargs'.name))]_vars

\* A rejected add on a resolver that holds a handle.
C16_Witness ==
    /\ pc = "KwargParse.add"
    /\ kwargs.name = Float
    /\ result = Error("AssertionError")
    /\ containers # <<>>

----------------------------------------------------------------------------
(* Specification of naming: any sequence of Term and Taxonomy              *)
(* constructions over one registry, which starts empty.                    *)

MaxTerms == 3       \* objects constructed in one behaviour

Conv == <<"C", "o", "n", "v">>
ReLU == <<"R", "e", "L", "U">>

\* The arguments of a construction: the class of obj, the prefix and the
\* explicit name (<<>> where not given).
TermPrefixes == {<<>>, <<"b">>}
TermNames == {<<"c", "o", "n", "v", "_", "1">>,
              <<"p", "i", "x", "e", "l", "_", "c", "o", "n", "v">>,
              <<"1">>}
TermRequests ==
    {[obj |-> c, prefix |-> p, name |-> <<>>] : c \in {Conv, ReLU}, p \in TermPrefixes}
    \cup {[obj |-> Conv, prefix |-> p, name |-> n] : p \in TermPrefixes, n \in TermNames}

InitTerm ==
    /\ schema = <<>>
    /\ keymap = EmptyMap
    /\ nested = FALSE
    /\ taxonomy = [basename |-> "", proposal |-> "", fullname |-> ""]
    /\ containers = <<>>
    /\ base = NoneVal
    /\ kwargs = EmptyMap
    /\ result = NoneVal
    /\ pc = "init"
    /\ name_uid_map = EmptyMap
    /\ terms = <<>>
    /\ layer = NoneVal
    /\ operators = <<>>
    /\ threads = <<>>

Construct(r, op) ==
    /\ Len(terms) < MaxTerms
    /\ terms' = Append(terms, Term(name_uid_map, r.obj, r.prefix, r.name))
    /\ name_uid_map' = Counted(name_uid_map, Term_requested(r.obj, r.prefix, r.name))
    /\ result' = Term(name_uid_map, r.obj, r.prefix, r.name)
    /\ kwargs' = r
    /\ pc' = op
    /\ UNCHANGED <<schema, keymap, nested, containers, taxonomy, base, layer, operators, threads>>

\* Term(obj, prefix, name)
TermInit(r) == Construct(r, "Term.__init__")

\* Taxonomy(obj, prefix, name)
TaxonomyInit(r) == Construct(r, "Taxonomy.__init__")

NextTerm ==
    \/ \E r \in TermRequests : TermInit(r)
    \/ \E r \in TermRequests : TaxonomyInit(r)

SpecTerm == InitTerm /\ [][NextTerm]_vars

\* C18: no two of the objects constructed hold the same fullname, whatever
\* the class names, the explicit names (among them a name that looks like an
\* issued one, conv_1) and the prefixes.
C18_FullnamesAreUnique ==
    \A i, j \in DOMAIN terms : i # j => terms[i].fullname # terms[j].fullname

\* The name conv_1 asked for explicitly after the class name Conv was issued
\* as conv_1.
C18_Witness ==
    \E i, j \in DOMAIN terms :
        /\ i < j
        /\ terms[i].basename = <<"c", "o", "n", "v">>
        /\ terms[i].fullname = <<"c", "o", "n", "v", "_", "1">>
        /\ terms[j].basename = <<"c", "o", "n", "v", "_", "1">>
        /\ terms[j].prefix = terms[i].prefix

\* The prefix-qualified basename an object was constructed for, and the
\* objects constructed before object i for the same one.
Qualified(t) == IF t.prefix # <<>> THEN t.prefix \o <<".">> \o t.basename ELSE t.basename

Earlier(i) == {j \in 1..(i - 1) : Qualified(terms[j]) = Qualified(terms[i])}

\* C19: the first object constructed for a prefix-qualified basename is
\* issued that name without a numeric suffix; every later one is issued the
\* name with a numeric suffix, different from the names issued before.
C19_FirstIssueUnsuffixed ==
    \A i \in DOMAIN terms :
        /\ Earlier(i) = {} => terms[i].fullname = Qualified(terms[i])
        /\ Earlier(i) # {} =>
              /\ \E n \in 1..MaxTerms :
                    terms[i].fullname = Qualified(terms[i]) \o <<"_">> \o str(n)
              /\ \A j \in Earlier(i) : terms[j].fullname # terms[i].fullname

\* C20: proposal is the last dot-separated segment of fullname, and suffix
\* is the number the registry appended to the name (the empty string where
\* it appended none), whatever the basename.
C20_SuffixIsDisambiguator ==
    \A i \in DOMAIN terms :
        LET t == terms[i]
        IN /\ t.proposal = LastSplit(t.fullname, ".")
           /\ t.fullname = Qualified(t) => t.suffix = <<>>
           /\ \A n \in 1..MaxTerms :
                 t.fullname = Qualified(t) \o <<"_">> \o str(n) => t.suffix = str(n)

\* C11: unknown override keys are never emitted: resolved without a base
\* mapping, every key of the output is the external key of a registered
\* name (the name itself when no external key is declared), so a keyword
\* no handle is registered for adds neither a key nor a value.
C11_OnlyRegisteredKeys ==
    (pc = "KwargParse.parse" /\ ~IsError(result) /\ base = NoneVal) =>
        DOMAIN result.items \subseteq {DeclaredKey(containers[i]) : i \in Named}

----------------------------------------------------------------------------
(* Specification of the config sections of Layer.parse_args: a layer with  *)
(* or without a prefix, constructed with a _config that holds sections     *)
(* only (no top-level entry for a schema name) and no explicit keyword.    *)

\* The names of the first ReLU constructed with the prefix "b".
PrefixedTaxonomy == [basename |-> "re_lu", proposal |-> "re_lu_1", fullname |-> "b.re_lu_1"]

SectionTaxonomies == LayerTaxonomies \cup {PrefixedTaxonomy}

\* The _config mappings with a section for the basename, the proposal and
\* the fullname of tax, each present or not, each giving "a" a value.
SectionConfigs(tax) ==
    {D(DictUpdate(DictUpdate(sb, sp), sf)) :
        sb \in Maybe(tax.basename, {D(f) : f \in Maybe("a", LayerVals) \ {EmptyMap}}),
        sp \in Maybe(tax.proposal, {D(f) : f \in Maybe("a", LayerVals) \ {EmptyMap}}),
        sf \in Maybe(tax.fullname, {D(f) : f \in Maybe("a", LayerVals) \ {EmptyMap}})}

InitLayerSections ==
    /\ name_uid_map = EmptyMap
    /\ terms = <<>>
    /\ layer = NoneVal
    /\ operators = <<>>
    /\ threads = <<>>
    /\ containers = <<>>
    /\ base = NoneVal
    /\ result = NoneVal
    /\ pc = "init"
    /\ nested = TRUE
    /\ taxonomy \in SectionTaxonomies
    /\ schema \in {od \in OrderedDicts(LayerNames, LayerDefaults) : "a" \in Keys(od)}
    /\ keymap \in Dicts(LayerNames, {"k"})
    /\ \E c \in SectionConfigs(taxonomy) : kwargs = [x \in {"_config"} |-> c]

NextLayerSections == LayerParseArgs

SpecLayerSections == InitLayerSections /\ [][NextLayerSections]_vars

\* The schema default of "a" and the value every section gives it are scalars.
ScalarsOnly ==
    /\ Items(schema)["a"].kind = "scalar"
    /\ \A sec \in DOMAIN Config : Config[sec].items["a"].kind = "scalar"

\* C21: the config section applied to a layer is the one keyed by its
\* fullname, and after it the one keyed by its basename: a scalar the
\* fullname section gives a schema name is the resolved value, and where
\* there is no fullname section the scalar of the basename section is.
\* Stated where the default and the sections hold scalars only.
C21_SectionsByBasenameAndFullname ==
    (pc = "Layer.parse_args" /\ NoLaterSameKey("a") /\ ScalarsOnly) =>
        /\ (InSection(taxonomy.fullname, "a")
              /\ Config[taxonomy.fullname].items["a"].kind = "scalar") =>
                (/\ result.kind = "dict"
                 /\ result.items[Swap(keymap, "a")] = Config[taxonomy.fullname].items["a"])
        /\ (taxonomy.fullname \notin DOMAIN Config
              /\ InSection(taxonomy.basename, "a")
              /\ Config[taxonomy.basename].items["a"].kind = "scalar") =>
                (/\ result.kind = "dict"
                 /\ result.items[Swap(keymap, "a")] = Config[taxonomy.basename].items["a"])

----------------------------------------------------------------------------
(* nn/layers: construction of the layers that dispatch on a method         *)
(*                                                                         *)
(* A Python str that the code splits or searches is a sequence of tokens   *)
(* or of characters, so that split, lower() and the in operator are        *)
(* computed.  The keyword prefix of a constructor is an argument of its    *)
(* own here; kw holds the other keywords.  A class is named by the string  *)
(* that keys Classes.  The Keras operators are outside the repository: one *)
(* is instantiated with any keywords, and raises TypeError where an        *)
(* argument its signature requires is not given.                           *)

\* The one element of a set.  Value({F(x) : x \in {e}}) is F(e) with e
\* computed once, however often F reads it.
Value(set) == CHOOSE x \in set : TRUE

Text(s) == [kind |-> "str", s |-> s]
Bool(b) == [kind |-> "bool", b |-> b]
\* A float, or an object the model does not look into, by its repr
Opaque(r) == [kind |-> "object", repr |-> r]

\* ''.join(s)
RECURSIVE Join(_)
Join(s) == IF s = <<>> THEN "" ELSE s[1] \o Join(Tail(s))

\* s.split(sep)
RECURSIVE split(_, _)
split(s, sep) ==
    LET at == {i \in DOMAIN s : s[i] = sep}
    IN IF at = {} THEN <<s>>
       ELSE <<SubSeq(s, 1, Min(at) - 1)>> \o split(SubSeq(s, Min(at) + 1, Len(s)), sep)

\* generic.content(x) of a list of strings with an entry at least
RECURSIVE content(_)
content(xs) ==
    IF Len(xs) = 1 THEN xs[1]
    ELSE IF Len(xs) = 2 THEN xs[1] \o <<" and ">> \o xs[2]
    ELSE xs[1] \o <<", ">> \o content(Tail(xs))

\* sub in s, for two strings
Contains(s, sub) ==
    \E i \in 1..(Len(s) - Len(sub) + 1) : SubSeq(s, i, i + Len(sub) - 1) = sub

\* str(x).lower()
str_lower(x) ==
    LET s == IF x.kind = "str" THEN x.s
             ELSE IF x.kind = "none" THEN <<"N", "o", "n", "e">>
             ELSE str(x.v)
    IN [i \in DOMAIN s |-> lower(s[i])]

\* bool(x) of a value
IsTrue(x) ==
    CASE x.kind = "bool" -> x.b
      [] x.kind = "none" -> FALSE
      [] x.kind = "scalar" -> x.v # 0
      [] x.kind = "str" -> x.s # <<>>
      [] OTHER -> TRUE

\* The dict args after args.pop(key, default)
Without(args, key) == D([k \in DOMAIN args.items \ {key} |-> args.items[k]])

\* The AssertionError raised with self.message(text) by a layer of class cls
Refused(cls, text) ==
    [kind |-> "error", type |-> "AssertionError", message |-> <<cls, ": ">> \o text]

\* op(**args) of a Keras operator: the arguments without a default in its
\* signature have to be given.
Operator(op, args) ==
    LET required ==
            IF op \in {"keras.layers.Conv1D", "keras.layers.Conv2D", "keras.layers.Conv3D",
                       "keras.layers.SeparableConv1D", "keras.layers.SeparableConv2D",
                       "keras.layers.Conv1DTranspose", "keras.layers.Conv2DTranspose",
                       "keras.layers.Conv3DTranspose"}
                THEN {"filters", "kernel_size"}
            ELSE IF op \in {"keras.layers.SpatialDropout1D",
                            "keras.layers.SpatialDropout2D",
                            "keras.layers.SpatialDropout3D"}
                THEN {"rate"}
            ELSE {}
    IN IF required \subseteq DOMAIN args.items
          THEN [kind |-> "operator", op |-> op, args |-> args]
          ELSE Error("TypeError")

\* What a constructor or a build did: the object (None where the call
\* raised before there was one), the error raised (None where it returned),
\* the counters, and the taxonomies issued and operators instantiated, in
\* order.
Outcome(obj, raised, uids, issued, instantiated) ==
    [layer |-> obj, raised |-> raised, uids |-> uids,
     issued |-> issued, instantiated |-> instantiated]

\* Layer.__init__(prefix=prefix, **kw) of an object of class cls, named
\* name, or given (the name keyword a subclass adds) where that is not
\* empty, whose schema() returns sch and whose keymap() returns km: the
\* taxonomy is issued first, then the arguments are parsed.
Layer_init(uids, cls, name, given, prefix, sch, km, kw) ==
    LET self(tax, args) ==
            Outcome(IF IsError(args) THEN NoneVal
                    ELSE [kind |-> "layer", cls |-> cls, taxonomy |-> tax,
                          args |-> args, operation |-> NoneVal],
                    IF IsError(args) THEN args ELSE NoneVal,
                    Counted(uids, Term_requested(name, prefix, given)),
                    <<tax>>, <<>>)
        parsed(tax, keys, s, k) ==
            Value({self(tax, args) : args \in {Layer_parse_args(s, k, keys, kw)}})
        named(tax) ==
            Value({parsed(tax, keys, s, k) :
                    keys \in {[basename |-> Join(tax.basename),
                               proposal |-> Join(tax.proposal),
                               fullname |-> Join(tax.fullname)]},
                    s \in {sch}, k \in {km}})
    IN Value({named(tax) : tax \in {Term(uids, name, prefix, given)}})

\* ops[index](**obj.args) assigned to the attribute attr in build, ops a
\* Python list or tuple and index zero-based and not negative.
Dispatch(obj, attr, ops, index) ==
    LET assigned(op) ==
            IF IsError(op) THEN Outcome(obj, op, EmptyMap, <<>>, <<>>)
            ELSE Outcome([obj EXCEPT ![attr] = op], NoneVal, EmptyMap, <<>>, <<op>>)
    IN IF index + 1 > Len(ops) THEN Outcome(obj, Error("IndexError"), EmptyMap, <<>>, <<>>)
       ELSE Value({assigned(op) : op \in {Operator(ops[index + 1], obj.args)}})

\* cls(prefix=prefix, **kw), the counters being uids
RECURSIVE New(_, _, _, _)

----------------------------------------------------------------------------
(* nn/layers/activation.py *)

\* ReLU.__init__, LeakyReLU.__init__, PReLU.__init__ and
\* ThresholdReLU.__init__ after Layer.__init__, operation being the Keras
\* operator of the class
ReLU_init(super, operation) ==
    LET made(op) ==
            IF IsError(op) THEN Outcome(NoneVal, op, super.uids, super.issued, <<>>)
            ELSE Outcome([super.layer EXCEPT !.operation = op], NoneVal,
                         super.uids, super.issued, <<op>>)
    IN IF super.raised # NoneVal THEN super
       ELSE Value({made(op) : op \in {Operator(operation, super.layer.args)}})

\* Activation.OPERATIONS, in insertion order; the last key lists the
\* methods of keras.layers.Activation
OPERATIONS ==
    <<<<(<<"relu">>), "ReLU">>,
      <<(<<"prelu">>), "PReLU">>,
      <<(<<"leaky">>), "LeakyReLU">>,
      <<(<<"threshold">>), "ThresholdReLU">>,
      <<(<<"elu", ",", "selu", ",", "sigmoid", ",", "hard_sigmoid", ",", "softmax", ",",
           "softsign", ",", "softplus", ",", "tanh", ",", "linear">>),
        "keras.layers.Activation">>>>

\* Activation.get_available_methods()
get_available_methods ==
    LET methods == Order(OPERATIONS)
    IN SubSeq(methods, 1, Len(methods) - 1) \o split(methods[Len(methods)], ",")

\* Activation.__init__ without the assertion on the method: a name that is
\* no key of OPERATIONS goes to the generic constructor.
Activation_init_Unverified(super, prefix, kw) ==
    LET obj == super.layer
        method == Get(obj.args.items, "method", Text(<<"sigmoid">>))
        methods == Order(OPERATIONS)
        built == [obj EXCEPT !.args = Without(obj.args, "method")] @@ [method |-> method]
        wrap(inner) ==
            Outcome(IF inner.raised = NoneVal
                       THEN [built EXCEPT !.operation = inner.layer] ELSE NoneVal,
                    inner.raised, inner.uids,
                    super.issued \o inner.issued, inner.instantiated)
        generic(op) ==
            Outcome([built EXCEPT !.operation = op], NoneVal, super.uids,
                    super.issued, <<op>>)
    IN IF super.raised # NoneVal THEN super
       ELSE IF method.kind = "str" /\ method.s \in Keys(OPERATIONS)
           THEN Value({wrap(inner) :
                    inner \in {New(Items(OPERATIONS)[method.s], super.uids, prefix, kw)}})
       ELSE Value({generic(op) :
                    op \in {Operator(Items(OPERATIONS)[methods[Len(methods)]],
                                     D1("activation", method))}})

\* Activation.__init__ after Layer.__init__
Activation_init(super, prefix, kw) ==
    LET obj == super.layer
        method == Get(obj.args.items, "method", Text(<<"sigmoid">>))
        methods == Order(OPERATIONS)
        built == [obj EXCEPT !.args = Without(obj.args, "method")] @@ [method |-> method]
        wrap(inner) ==
            Outcome(IF inner.raised = NoneVal
                       THEN [built EXCEPT !.operation = inner.layer] ELSE NoneVal,
                    inner.raised, inner.uids,
                    super.issued \o inner.issued, inner.instantiated)
        generic(op) ==
            Outcome([built EXCEPT !.operation = op], NoneVal, super.uids,
                    super.issued, <<op>>)
    IN IF super.raised # NoneVal THEN super
       ELSE IF \A i \in DOMAIN get_available_methods :
                    method # Text(get_available_methods[i])
           THEN Outcome(NoneVal,
                        Refused("Activation",
                            <<"only supports: ">> \o content(get_available_methods)),
                        super.uids, super.issued, <<>>)
       ELSE IF method.s \in Keys(OPERATIONS)
           THEN Value({wrap(inner) :
                    inner \in {New(Items(OPERATIONS)[method.s], super.uids, prefix, kw)}})
       ELSE Value({generic(op) :
                    op \in {Operator(Items(OPERATIONS)[methods[Len(methods)]],
                                     D1("activation", method))}})

----------------------------------------------------------------------------
(* nn/layers/pooling.py *)

\* Pooling.OPERATORS, in insertion order
Pooling_OPERATORS ==
    <<<<(<<"m", "a", "x">>),
            <<"keras.layers.MaxPool1D", "keras.layers.MaxPool2D",
              "keras.layers.MaxPool3D">>>>,
      <<(<<"a", "v", "g">>),
            <<"keras.layers.AvgPool1D", "keras.layers.AvgPool2D",
              "keras.layers.AvgPool3D">>>>,
      <<(<<"g", "l", "o", "b", "a", "l", "_", "m", "a", "x">>),
            <<"keras.layers.GlobalMaxPool1D", "keras.layers.GlobalMaxPool2D",
              "keras.layers.GlobalMaxPool3D">>>>,
      <<(<<"g", "l", "o", "b", "a", "l", "_", "a", "v", "g">>),
            <<"keras.layers.GlobalAvgPool1D", "keras.layers.GlobalAvgPool2D",
              "keras.layers.GlobalAvgPool3D">>>>>>

\* 'global' in kwargs.get('method', 'max'): a value that is no container
\* raises TypeError.
Pooling_global(kw) ==
    LET method == Get(kw, "method", Text(<<"m", "a", "x">>))
    IN IF method.kind = "str"
          THEN Bool(Contains(method.s, <<"g", "l", "o", "b", "a", "l">>))
          ELSE Error("TypeError")

\* Pooling.schema(**kw)
Pooling_schema(kw) ==
    IF Pooling_global(kw) = Bool(TRUE) THEN <<>>
    ELSE <<<<"size", S(2)>>, <<"strides", S(2)>>,
           <<"padding", Text(<<"v", "a", "l", "i", "d">>)>>>>

\* Pooling.keymap(**kw)
Pooling_keymap(kw) ==
    IF Pooling_global(kw) = Bool(TRUE) THEN EmptyMap
    ELSE [k \in {"size"} |-> "pool_size"]

\* Pooling.__init__ after Layer.__init__, in which schema(**kw) raises
\* before the arguments are parsed
Pooling_init(super, kw) ==
    IF IsError(Pooling_global(kw))
        THEN Outcome(NoneVal, Pooling_global(kw), super.uids, super.issued, <<>>)
    ELSE IF super.raised # NoneVal THEN super
    ELSE [super EXCEPT !.layer =
            [super.layer EXCEPT !.args = Without(super.layer.args, "method")]
                @@ [method |-> Get(super.layer.args.items, "method",
                                   Text(<<"m", "a", "x">>))]]

\* Pooling.build(input_shape)
Pooling_build(obj, input_shape) ==
    LET dim == Len(input_shape.elems) - 2 - 1
    IN IF ~(obj.method.kind = "str" /\ obj.method.s \in Keys(Pooling_OPERATORS))
           THEN Outcome(obj, Refused("Pooling", <<"only supports: ">>),
                        EmptyMap, <<>>, <<>>)
       ELSE IF ~(0 < dim /\ dim < Len(Pooling_OPERATORS))
           THEN Outcome(obj, Refused("Pooling",
                            <<"%s only supports dimension 1D, 2D and 3D.">>),
                        EmptyMap, <<>>, <<>>)
       ELSE Dispatch(obj, "operation", Items(Pooling_OPERATORS)[obj.method.s], dim)

(* nn/layers/merge.py *)

\* Merge.OPERATORS: the methods, and whether the entry has a parser
Merge_OPERATORS ==
    <<<<(<<"a", "d", "d">>), FALSE>>,
      <<(<<"s", "u", "b">>), FALSE>>,
      <<(<<"m", "u", "l">>), FALSE>>,
      <<(<<"m", "i", "n">>), FALSE>>,
      <<(<<"m", "a", "x">>), FALSE>>,
      <<(<<"c", "o", "n", "c", "a", "t">>), TRUE>>,
      <<(<<"d", "o", "t">>), TRUE>>>>

\* Merge.__init__ after Layer.__init__: Layer declares no schema for Merge,
\* and no attribute kwargs, which both branches of the last statement read.
Merge_init(super, kw) ==
    LET method == str_lower(Get(super.layer.args.items, "method",
                                Text(<<"a", "d", "d">>)))
    IN IF super.raised # NoneVal THEN super
       ELSE IF method \notin Keys(Merge_OPERATORS)
           THEN Outcome(NoneVal,
                        Refused("Merge", <<"method ">> \o method \o <<" not found.">>),
                        super.uids, super.issued, <<>>)
       ELSE Outcome(NoneVal, Error("AttributeError"), super.uids, super.issued, <<>>)

(* nn/layers/noise.py *)

\* SpatialDropout.OPERATORS
SpatialDropout_OPERATORS ==
    <<"keras.layers.SpatialDropout1D", "keras.layers.SpatialDropout2D",
      "keras.layers.SpatialDropout3D">>

\* SpatialDropout.build(input_shape)
SpatialDropout_build(obj, input_shape) ==
    LET dim == Len(input_shape.elems) - 2
        ops == SpatialDropout_OPERATORS
        popped == IF dim = 1 THEN [obj EXCEPT !.args = Without(obj.args, "data_format")]
                             ELSE obj
    IN IF ~(0 < dim /\ dim <= Len(ops))
           THEN Outcome(obj, Refused("SpatialDropout", <<"only supports dimension ">>),
                        EmptyMap, <<>>, <<>>)
       ELSE Dispatch(popped, "func", ops, dim - 1)

\* Dropout.OPERATORS: the methods
Dropout_OPERATORS ==
    {<<"n", "o", "n", "e">>, <<"a", "l", "p", "h", "a">>,
     <<"g", "u", "a", "s", "s", "i", "a", "n">>, <<"s", "p", "a", "t", "i", "a", "l">>}

\* Dropout.__init__ after Layer.__init__: as in Merge, no schema and no
\* attribute kwargs.
Dropout_init(super, kw) ==
    LET method == str_lower(Get(super.layer.args.items, "method", NoneVal))
    IN IF super.raised # NoneVal THEN super
       ELSE IF method \notin Dropout_OPERATORS
           THEN Outcome(NoneVal,
                        Refused("Dropout", <<"method ">> \o method \o <<" not found.">>),
                        super.uids, super.issued, <<>>)
       ELSE Outcome(NoneVal, Error("AttributeError"), super.uids, super.issued, <<>>)

(* nn/layers/convolution.py *)

\* Convolution.OPERATORS
Convolution_OPERATORS ==
    [thin |-> <<"keras.layers.SeparableConv1D", "keras.layers.SeparableConv2D">>,
     none |-> <<"keras.layers.Conv1D", "keras.layers.Conv2D", "keras.layers.Conv3D">>]

\* Convolution.__init__ after Layer.__init__
Convolution_init(super, kw) ==
    IF super.raised # NoneVal THEN super
    ELSE [super EXCEPT !.layer =
            [super.layer EXCEPT !.args = Without(super.layer.args, "thin")]
                @@ [func |-> NoneVal,
                    thin |-> Get(super.layer.args.items, "thin", Bool(FALSE))]]

\* Convolution.build(input_shape)
Convolution_build(obj, input_shape) ==
    LET dim == Len(input_shape.elems) - 2
        ops == IF IsTrue(obj.thin) THEN Convolution_OPERATORS.thin
                                   ELSE Convolution_OPERATORS.none
        max_dims == Len(ops)
    IN IF ~(0 < dim /\ dim <= max_dims)
           THEN Outcome(obj, Refused("Convolution", <<"only supports dimension: ">>),
                        EmptyMap, <<>>, <<>>)
       ELSE Dispatch(obj, "func", ops, dim - 1)

\* TransposeConvolution.OPERATORS
TransposeConvolution_OPERATORS ==
    <<"keras.layers.Conv1DTranspose", "keras.layers.Conv2DTranspose",
      "keras.layers.Conv3DTranspose">>

\* TransposeConvolution.build(input_shape)
TransposeConvolution_build(obj, input_shape) ==
    LET dim == Len(input_shape.elems) - 2
        mdim == Len(TransposeConvolution_OPERATORS)
    IN IF ~(0 < dim /\ dim <= mdim)
           THEN Outcome(obj, Refused("TransposeConvolution",
                                     <<"only supports dimension ">>),
                        EmptyMap, <<>>, <<>>)
       ELSE Dispatch(obj, "func", TransposeConvolution_OPERATORS, dim)

\* Deconvolution.__init__ after Layer.__init__: the TransposeConvolution is
\* given the parsed arguments, which hold no prefix.
Deconvolution_init(super, kw) ==
    LET obj == super.layer
        method == str_lower(Get(obj.args.items, "method", NoneVal))
        args == Without(obj.args, "method")
        wrap(inner) ==
            Outcome(IF inner.raised = NoneVal
                       THEN [obj EXCEPT !.args = args]
                                @@ [method |-> Text(method), func |-> inner.layer]
                       ELSE NoneVal,
                    inner.raised, inner.uids, super.issued \o inner.issued, <<>>)
    IN IF super.raised # NoneVal THEN super
       ELSE IF method \notin {<<"p", "i", "x", "e", "l">>, <<"n", "o", "n", "e">>}
           THEN Outcome(NoneVal,
                        Refused("Deconvolution",
                                <<"method ">> \o method \o <<" not found.">>),
                        super.uids, super.issued, <<>>)
       ELSE IF method = <<"p", "i", "x", "e", "l">>
           THEN Outcome(NoneVal, Error("AttributeError"), super.uids, super.issued, <<>>)
       ELSE Value({wrap(inner) :
                    inner \in {New("TransposeConvolution", super.uids, <<>>, args.items)}})

----------------------------------------------------------------------------
(* The classes of nn/layers that are modelled *)

\* Of each class: its name, the name its constructor passes to
\* Layer.__init__ (empty where it passes none), schema(**kw), keymap(**kw),
\* and the Keras operator where the constructor instantiates one.
Classes(kw) ==
    [Activation |->
        [name |-> <<"A", "c", "t", "i", "v", "a", "t", "i", "o", "n">>, given |-> <<>>,
         schema |-> <<<<"method", Text(<<"sigmoid">>)>>>>, keymap |-> EmptyMap],
     ReLU |->
        [name |-> <<"R", "e", "L", "U">>, given |-> <<>>,
         schema |-> <<<<"max", NoneVal>>, <<"slope", S(0)>>, <<"threshold", S(0)>>>>,
         keymap |-> [k \in {"max", "slope"} |->
                        IF k = "max" THEN "max_value" ELSE "negative_slope"],
         operation |-> "keras.layers.ReLU"],
     LeakyReLU |->
        [name |-> <<"L", "e", "a", "k", "y", "R", "e", "L", "U">>, given |-> <<>>,
         schema |-> <<<<"alpha", Opaque("0.02")>>>>, keymap |-> EmptyMap,
         operation |-> "keras.layers.LeakyReLU"],
     PReLU |->
        [name |-> <<"P", "R", "e", "L", "U">>, given |-> <<>>,
         schema |-> <<<<"weight_decay", Opaque("l2(5e-6)")>>, <<"axes", NoneVal>>>>,
         keymap |-> [k \in {"weight_decay", "axes"} |->
                        IF k = "axes" THEN "shared_axes" ELSE "alpha_regularizer"],
         operation |-> "keras.layers.PReLU"],
     ThresholdReLU |->
        [name |-> <<"T", "h", "r", "e", "s", "h", "o", "l", "d", "R", "e", "L", "U">>,
         given |-> <<>>,
         schema |-> <<<<"theta", Opaque("0.1")>>>>, keymap |-> EmptyMap,
         operation |-> "keras.layers.ThresholdedReLU"],
     Pooling |->
        [name |-> <<"P", "o", "o", "l", "i", "n", "g">>, given |-> <<>>,
         schema |-> Pooling_schema(kw), keymap |-> Pooling_keymap(kw)],
     Merge |->
        [name |-> <<"M", "e", "r", "g", "e">>, given |-> <<>>,
         schema |-> <<>>, keymap |-> EmptyMap],
     Dropout |->
        [name |-> <<"D", "r", "o", "p", "o", "u", "t">>, given |-> <<>>,
         schema |-> <<>>, keymap |-> EmptyMap],
     SpatialDropout |->
        [name |-> <<"S", "p", "a", "t", "i", "a", "l", "D", "r", "o", "p", "o", "u", "t">>,
         given |-> <<>>, schema |-> <<>>, keymap |-> EmptyMap],
     Convolution |->
        [name |-> <<"C", "o", "n", "v", "o", "l", "u", "t", "i", "o", "n">>,
         given |-> <<"c", "o", "n", "v">>, schema |-> <<>>, keymap |-> EmptyMap],
     TransposeConvolution |->
        [name |-> <<"T", "r", "a", "n", "s", "p", "o", "s", "e",
                    "C", "o", "n", "v", "o", "l", "u", "t", "i", "o", "n">>,
         given |-> <<>>, schema |-> <<>>, keymap |-> EmptyMap],
     Deconvolution |->
        [name |-> <<"D", "e", "c", "o", "n", "v", "o", "l", "u", "t", "i", "o", "n">>,
         given |-> <<"d", "e", "c", "o", "n", "v">>, schema |-> <<>>, keymap |-> EmptyMap]]

New(cls, uids, prefix, kw) ==
    LET body(c, super) ==
            CASE cls = "Activation" -> Activation_init(super, prefix, kw)
              [] cls \in {"ReLU", "LeakyReLU", "PReLU", "ThresholdReLU"} ->
                    ReLU_init(super, c.operation)
              [] cls = "Pooling" -> Pooling_init(super, kw)
              [] cls = "Merge" -> Merge_init(super, kw)
              [] cls = "Dropout" -> Dropout_init(super, kw)
              [] cls = "Convolution" -> Convolution_init(super, kw)
              [] cls = "Deconvolution" -> Deconvolution_init(super, kw)
              [] cls \in {"SpatialDropout", "TransposeConvolution"} ->
                    IF super.raised # NoneVal THEN super
                    ELSE [super EXCEPT !.layer = super.layer @@ [func |-> NoneVal]]
        parent(c) ==
            Value({body(c, super) :
                    super \in {Layer_init(uids, cls, c.name, c.given, prefix,
                                          c.schema, c.keymap, kw)}})
    IN Value({parent(c) : c \in {Classes(kw)[cls]}})

\* obj.build(input_shape), for the classes whose build is modelled
build(obj, input_shape) ==
    CASE obj.cls = "Pooling" -> Pooling_build(obj, input_shape)
      [] obj.cls = "Convolution" -> Convolution_build(obj, input_shape)
      [] obj.cls = "TransposeConvolution" -> TransposeConvolution_build(obj, input_shape)
      [] obj.cls = "SpatialDropout" -> SpatialDropout_build(obj, input_shape)

----------------------------------------------------------------------------
(* Specification of Activation: any sequence of constructions over one     *)
(* registry of names, with a method that is valid, unknown, of another     *)
(* type or not given, as a keyword or in the config.                       *)

MaxLayers == 2      \* a construction starts while fewer names were issued

\* A constructor that takes the names it issued back when it raises.
Constructed_RolledBack(out, op, kw) ==
    /\ layer' = out.layer
    /\ result' = out.raised
    /\ name_uid_map' = IF out.raised = NoneVal THEN out.uids ELSE name_uid_map
    /\ terms' = IF out.raised = NoneVal THEN terms \o out.issued ELSE terms
    /\ operators' = operators \o out.instantiated
    /\ kwargs' = kw
    /\ pc' = op
    /\ UNCHANGED <<schema, keymap, nested, containers, taxonomy, base, threads>>

\* The effect of a constructor called with the keywords kw on the state.
Constructed(out, op, kw) ==
    /\ layer' = out.layer
    /\ result' = out.raised
    /\ name_uid_map' = out.uids
    /\ terms' = terms \o out.issued
    /\ operators' = operators \o out.instantiated
    /\ kwargs' = kw
    /\ pc' = op
    /\ UNCHANGED <<schema, keymap, nested, containers, taxonomy, base, threads>>

\* cls(prefix=prefix, **kw)
LayerInit(cls, prefix, kw) ==
    /\ Len(terms) < MaxLayers
    /\ \E out \in {New(cls, name_uid_map, prefix, kw)} :
            Constructed(out, cls \o ".__init__", kw)

ValidMethods ==
    {<<"relu">>, <<"prelu">>, <<"leaky">>, <<"threshold">>, <<"elu">>, <<"selu">>,
     <<"sigmoid">>, <<"hard_sigmoid">>, <<"softmax">>, <<"softsign">>, <<"softplus">>,
     <<"tanh">>, <<"linear">>}

\* The calls of Activation.  The method is a valid name, an unknown name
\* (one differs from a valid one in case only), the comma-separated key of
\* OPERATIONS itself, None or a number; a config gives it at top level or
\* in the section of the basename of the layer.
ActivationRequests ==
    {[prefix |-> p, kw |-> kw] :
        p \in TermPrefixes,
        kw \in Maybe("method",
                {Text(m) : m \in ValidMethods \cup
                        {<<"gelu">>, <<"ReLU">>, Order(OPERATIONS)[Len(OPERATIONS)]}}
                \cup {NoneVal, S(1)})}
    \cup {[prefix |-> <<>>, kw |-> DictUpdate(m, c)] :
            m \in Maybe("method", {Text(<<"relu">>), Text(<<"gelu">>)}),
            c \in {[x \in {"_config"} |-> v] :
                    v \in {D1("method", Text(<<"relu">>)),
                           D1("method", Text(<<"gelu">>)),
                           D1("activation", D1("method", Text(<<"tanh">>)))}}}
    \cup {[prefix |-> <<>>, kw |-> DictUpdate(m, [x \in {"max"} |-> S(1)])] :
            m \in Maybe("method", {Text(<<"relu">>), Text(<<"tanh">>)})}

NextActivation == \E r \in ActivationRequests : LayerInit("Activation", r.prefix, r.kw)

SpecActivation == InitTerm /\ [][NextActivation]_vars

\* The method a call supplies: the keyword, else the top-level entry of the
\* config, else the entry of the section of the basename; None where the
\* call supplies none.
Supplied(kw) ==
    LET config == Get(kw, "_config", EmptyD).items
        section == Get(config, "activation", EmptyD).items
    IN IF "method" \in DOMAIN kw THEN kw["method"]
       ELSE IF "method" \in DOMAIN config THEN config["method"]
       ELSE IF "method" \in DOMAIN section THEN section["method"]
       ELSE Error("absent")

\* C22: a method outside the valid names makes the constructor fail with an
\* assertion error that names the valid ones, and no operator is
\* instantiated; a valid method gives the operation of its table entry
\* (the generic constructor, given activation=method, for the names of the
\* comma-separated key); sigmoid is the method only where it was supplied
\* or no method was.
C22_ActivationValidatesMethod ==
    [][pc' = "Activation.__init__" =>
        LET given == Supplied(kwargs')
            m == IF given = Error("absent") THEN Text(<<"sigmoid">>) ELSE given
        IN IF m.kind = "str" /\ m.s \in ValidMethods
              THEN /\ result' = NoneVal
                   /\ layer'.method = m
                   /\ IF m.s \in Keys(OPERATIONS)
                         THEN /\ layer'.operation.kind = "layer"
                              /\ layer'.operation.operation.op =
                                    Classes(EmptyMap)[Items(OPERATIONS)[m.s]].operation
                              /\ operators' = Append(operators, layer'.operation.operation)
                         ELSE /\ layer'.operation =
                                    Operator("keras.layers.Activation", D1("activation", m))
                              /\ operators' = Append(operators, layer'.operation)
              ELSE /\ result'.kind = "error"
                   /\ result'.type = "AssertionError"
                   /\ \A v \in ValidMethods :
                        \E i \in DOMAIN result'.message : result'.message[i] = v[1]
                   /\ layer' = NoneVal
                   /\ operators' = operators]_vars

\* An unknown method refused after a valid one built its operation.
C22_Witness ==
    /\ pc = "Activation.__init__"
    /\ kwargs = [x \in {"method"} |-> Text(<<"gelu">>)]
    /\ result.kind = "error"
    /\ layer = NoneVal
    /\ Len(operators) = 1
    /\ operators[1].op = "keras.layers.Activation"

\* C30: the name is issued before the method is validated and is not taken
\* back: a construction that fails has recorded one more name and raised
\* the counter of the name it asked for, and every construction is issued
\* the name numbered one past the constructions before it for the same
\* prefix and basename, the failed ones included.
C30_NameIssuedBeforeValidation ==
    [][pc' = "Activation.__init__" =>
        LET issued == terms'[Len(terms) + 1]
        IN /\ Len(terms') > Len(terms)
           /\ issued.basename = snake_case(Classes(EmptyMap).Activation.name)
           /\ name_uid_map'[Qualified(issued)] = Get(name_uid_map, Qualified(issued), 0) + 1
           /\ issued.fullname = Qualified(issued) \o <<"_">> \o
                str(1 + Cardinality({i \in DOMAIN terms : Qualified(terms[i]) = Qualified(issued)}))
           /\ result' # NoneVal => Len(terms') = Len(terms) + 1]_vars

\* A construction that succeeded after one with the same prefix failed:
\* it is issued the second name.
C30_Witness ==
    /\ pc = "Activation.__init__"
    /\ result = NoneVal
    /\ Len(operators) = 1
    /\ Len(terms) = 2
    /\ terms[1].fullname =
        <<"b", ".">> \o snake_case(Classes(EmptyMap).Activation.name) \o <<"_", "1">>
    /\ terms[2].fullname =
        <<"b", ".">> \o snake_case(Classes(EmptyMap).Activation.name) \o <<"_", "2">>
    /\ layer.taxonomy = terms[2]

----------------------------------------------------------------------------
(* Specification of the dispatching layers: constructions of Pooling,      *)
(* Merge, Dropout, Deconvolution, Convolution, TransposeConvolution and    *)
(* SpatialDropout over one registry of names, each layer built (or not)    *)
(* on an input of some rank before the next is constructed.  kwargs holds  *)
(* the keywords of the last constructor, base the input_shape of the last  *)
(* build.  input_shape is a tuple, a tagged record as the other values;    *)
(* only its length is read.                                                *)

MaxRank == 6        \* input shapes have 1..MaxRank entries

InputShapes == {[kind |-> "tuple", elems |-> [i \in 1..n |-> NoneVal]] : n \in 1..MaxRank}

\* A method no class has
Median == <<"m", "e", "d", "i", "a", "n">>

\* The keywords each class is constructed with
Keywords ==
    [Pooling |->
        Maybe("method", {Text(m) : m \in Keys(Pooling_OPERATORS) \cup {Median}}
                        \cup {NoneVal})
        \cup {[x \in {"size"} |-> S(3)],
              [x \in {"_config"} |-> D1("method", Text(<<"a", "v", "g">>))]},
     Merge |->
        Maybe("method", {Text(<<"a", "d", "d">>), Text(<<"c", "o", "n", "c", "a", "t">>),
                         Text(Median)}),
     Dropout |->
        Maybe("method", {Text(<<"n", "o", "n", "e">>), Text(<<"a", "l", "p", "h", "a">>),
                         Text(Median)}),
     Deconvolution |->
        Maybe("method", {Text(<<"n", "o", "n", "e">>), Text(<<"p", "i", "x", "e", "l">>),
                         Text(Median)}),
     Convolution |->
        {DictUpdate(t, f) :
            t \in Maybe("thin", {Bool(TRUE), Bool(FALSE)}),
            f \in {EmptyMap, [x \in {"filters", "kernel"} |-> S(1)]}},
     TransposeConvolution |-> {EmptyMap, [x \in {"filters", "kernel"} |-> S(1)]},
     SpatialDropout |->
        {EmptyMap, [x \in {"rate"} |-> Opaque("0.5")],
         [x \in {"rate", "data_format"} |->
            IF x = "rate" THEN Opaque("0.5") ELSE Text(<<"channels_last">>)]}]

\* layer.build(input_shape), of the layer constructed last and not built
\* yet (Keras builds a layer once)
LayerBuild(input_shape) ==
    /\ layer # NoneVal
    /\ layer.cls \in {"Pooling", "Convolution", "TransposeConvolution", "SpatialDropout"}
    /\ pc = layer.cls \o ".__init__"
    /\ \E out \in {build(layer, input_shape)} :
        /\ layer' = out.layer
        /\ result' = out.raised
        /\ operators' = operators \o out.instantiated
        /\ base' = input_shape
        /\ pc' = layer.cls \o ".build"
    /\ UNCHANGED <<schema, keymap, nested, containers, taxonomy, kwargs,
                   name_uid_map, terms, threads>>

NextDispatch ==
    \/ \E cls \in DOMAIN Keywords, p \in TermPrefixes :
            \E kw \in Keywords[cls] : LayerInit(cls, p, kw)
    \/ \E s \in InputShapes : LayerBuild(s)

SpecDispatch == InitTerm /\ [][NextDispatch]_vars

\* The method names a class recognizes, and the method a constructor was
\* asked for (the keyword, as the class compares it).
Recognized(cls) ==
    CASE cls = "Pooling" -> Keys(Pooling_OPERATORS)
      [] cls = "Merge" -> Keys(Merge_OPERATORS)
      [] cls = "Dropout" -> Dropout_OPERATORS
      [] cls = "Deconvolution" -> {<<"p", "i", "x", "e", "l">>, <<"n", "o", "n", "e">>}

Asked(kw) == "method" \in DOMAIN kw /\ kw["method"].kind = "str"

RefusedBeforeOperators ==
    /\ result'.kind = "error"
    /\ result'.type = "AssertionError"
    /\ operators' = operators

\* C23: a requested method the class does not recognize makes the
\* constructor of Merge, Dropout and Deconvolution, and the build of
\* Pooling, fail with an assertion error before any operator is
\* instantiated: the default never stands in for it.
C23_UnknownMethodRefused ==
    [][/\ \A cls \in {"Merge", "Dropout", "Deconvolution"} :
            (/\ pc' = cls \o ".__init__"
             /\ Asked(kwargs')
             /\ str_lower(kwargs'["method"]) \notin Recognized(cls))
                => (RefusedBeforeOperators /\ layer' = NoneVal)
       /\ (/\ pc' = "Pooling.build"
           /\ Asked(kwargs')
           /\ kwargs'["method"].s \notin Recognized("Pooling"))
                => RefusedBeforeOperators]_vars

\* C25: Pooling keeps the method it is asked for: for each of max, avg,
\* global_max and global_avg the constructor stores it and build
\* instantiates an operator of its entry of OPERATORS; max is the method
\* where none was passed.
C25_PoolingHonoursMethod ==
    [][LET m == IF "method" \in DOMAIN kwargs' THEN kwargs'["method"]
                ELSE Text(<<"m", "a", "x">>)
       IN (m.kind = "str" /\ m.s \in Recognized("Pooling")) =>
            /\ (pc' = "Pooling.__init__" /\ result' = NoneVal) => layer'.method = m
            /\ (pc' = "Pooling.build" /\ result' = NoneVal) =>
                    /\ \E i \in 1..3 :
                            layer'.operation.op = Items(Pooling_OPERATORS)[m.s][i]
                    /\ operators' = Append(operators, layer'.operation)]_vars

\* C26: Pooling.build on an input of d = len(input_shape) - 2 spatial
\* dimensions instantiates the d-dimensional operator of the method for d
\* in 1..3, and fails with an assertion error, nothing instantiated, for
\* every other d.
C26_PoolingDimension ==
    [][pc' = "Pooling.build" =>
        LET d == Len(base'.elems) - 2
        IN IF d \in 1..3
              THEN /\ result' = NoneVal
                   /\ layer'.operation.op = Items(Pooling_OPERATORS)[layer.method.s][d]
                   /\ operators' = Append(operators, layer'.operation)
              ELSE RefusedBeforeOperators /\ layer' = layer]_vars

\* C27: TransposeConvolution.build instantiates the d-dimensional
\* transpose operator for d in 1..3 and fails with an assertion error,
\* nothing instantiated, for every other d.
C27_TransposeDimension ==
    [][pc' = "TransposeConvolution.build" =>
        LET d == Len(base'.elems) - 2
        IN IF d \in 1..3
              THEN /\ result' = NoneVal
                   /\ layer'.func.op = TransposeConvolution_OPERATORS[d]
                   /\ operators' = Append(operators, layer'.func)
              ELSE RefusedBeforeOperators /\ layer' = layer]_vars

\* C28: Convolution.build instantiates the d-dimensional operator for d in
\* 1..3 (the separable one for d in 1..2 where thin was asked for), and
\* SpatialDropout.build the d-dimensional one for d in 1..3, without
\* data_format exactly when d = 1; for every other d both fail with an
\* assertion error and instantiate nothing.
C28_ConvolutionDimension ==
    [][LET d == Len(base'.elems) - 2
           thin == IsTrue(Get(kwargs', "thin", Bool(FALSE)))
           ops == IF thin THEN Convolution_OPERATORS.thin ELSE Convolution_OPERATORS.none
       IN /\ pc' = "Convolution.build" =>
                IF d \in 1..Len(ops)
                   THEN /\ result' = NoneVal
                        /\ layer'.func.op = ops[d]
                        /\ operators' = Append(operators, layer'.func)
                   ELSE RefusedBeforeOperators /\ layer' = layer
          /\ pc' = "SpatialDropout.build" =>
                IF d \in 1..3
                   THEN /\ result' = NoneVal
                        /\ layer'.func.op = SpatialDropout_OPERATORS[d]
                        /\ ("data_format" \in DOMAIN layer'.func.args.items) =
                                (d # 1 /\ "data_format" \in DOMAIN layer.args.items)
                        /\ operators' = Append(operators, layer'.func)
                   ELSE RefusedBeforeOperators /\ layer' = layer]_vars

----------------------------------------------------------------------------
(* Two constructions of Term in two threads over the one registry of       *)
(* names.  unique_name raises the counter with                             *)
(* name_uid_map[key] += 1, which reads the counter, adds one and writes    *)
(* it back, and then reads the counter again to number the name; another   *)
(* thread can run between any two of the three.                            *)

\* The qualified basename the construction of thread t asks a number for
RaceKey(t) ==
    Term_requested(threads[t].request.obj, threads[t].request.prefix,
                   threads[t].request.name)

InitRace ==
    /\ schema = <<>>
    /\ keymap = EmptyMap
    /\ nested = FALSE
    /\ taxonomy = [basename |-> "", proposal |-> "", fullname |-> ""]
    /\ containers = <<>>
    /\ base = NoneVal
    /\ kwargs = EmptyMap
    /\ result = NoneVal
    /\ pc = "init"
    /\ name_uid_map = EmptyMap
    /\ terms = <<>>
    /\ layer = NoneVal
    /\ operators = <<>>
    /\ threads \in {<<[pc |-> "load", request |-> r1, seen |-> 0, term |-> NoneVal],
                      [pc |-> "load", request |-> r2, seen |-> 0, term |-> NoneVal]>> :
                        r1 \in TermRequests, r2 \in TermRequests}

\* name_uid_map[key] += 1, the read
Load(t) ==
    /\ threads[t].pc = "load"
    /\ threads' = [threads EXCEPT ![t].pc = "store",
                                  ![t].seen = Get(name_uid_map, RaceKey(t), 0)]
    /\ UNCHANGED <<schema, keymap, nested, containers, taxonomy, base, kwargs, result,
                   pc, name_uid_map, terms, layer, operators>>

\* An increment that writes back what it read.
Store_Unraised(t) ==
    /\ threads[t].pc = "store"
    /\ name_uid_map' = Update(name_uid_map, RaceKey(t), threads[t].seen)
    /\ threads' = [threads EXCEPT ![t].pc = "name"]
    /\ UNCHANGED <<schema, keymap, nested, containers, taxonomy, base, kwargs, result,
                   pc, terms, layer, operators>>

\* name_uid_map[key] += 1, the write of what was read plus one
Store(t) ==
    /\ threads[t].pc = "store"
    /\ name_uid_map' = Update(name_uid_map, RaceKey(t), threads[t].seen + 1)
    /\ threads' = [threads EXCEPT ![t].pc = "name"]
    /\ UNCHANGED <<schema, keymap, nested, containers, taxonomy, base, kwargs, result,
                   pc, terms, layer, operators>>

\* The name is numbered by the counter as it stands, and the rest of
\* Term.__init__ runs on the name: Term reads the counter and adds one, so
\* it is given the counters with this one lowered by one.
Issue(t) ==
    /\ threads[t].pc = "name"
    /\ \E term \in {Term(Update(name_uid_map, RaceKey(t), name_uid_map[RaceKey(t)] - 1),
                         threads[t].request.obj, threads[t].request.prefix,
                         threads[t].request.name)} :
        /\ threads' = [threads EXCEPT ![t].pc = "done", ![t].term = term]
        /\ terms' = Append(terms, term)
    /\ pc' = "Term.__init__"
    /\ UNCHANGED <<schema, keymap, nested, containers, taxonomy, base, kwargs, result,
                   name_uid_map, layer, operators>>

NextRace ==
    \/ \E t \in 1..2 : Load(t)
    \/ \E t \in 1..2 : Store(t)
    \/ \E t \in 1..2 : Issue(t)

SpecRace == InitRace /\ [][NextRace]_vars

\* C24: two unsynchronized constructions for the same prefix-qualified
\* basename can be issued the same fullname.  Once both are done the
\* counter of the name stands at 1 or 2 and each fullname carries 1 or 2;
\* where one increment was lost (the counter stands at 1) both hold the
\* fullname numbered 1, and two different fullnames are numbered 1 and 2 in
\* the order of issue.  Constructions for different names do not interfere.
C24_ConcurrentRegistration ==
    (\A t \in DOMAIN threads : threads[t].pc = "done") =>
        LET key == RaceKey(1)
            first == terms[1].fullname
            second == terms[2].fullname
        IN IF RaceKey(1) = RaceKey(2)
              THEN /\ name_uid_map[key] \in 1..2
                   /\ {first, second} \subseteq {key \o <<"_", "1">>, key \o <<"_", "2">>}
                   /\ name_uid_map[key] = 1 => (first = second /\ first = key \o <<"_", "1">>)
                   /\ first # second =>
                        (first = key \o <<"_", "1">> /\ second = key \o <<"_", "2">>)
              ELSE \A t \in DOMAIN threads :
                    /\ name_uid_map[RaceKey(t)] = 1
                    /\ threads[t].term.fullname = RaceKey(t) \o <<"_", "1">>

\* Both constructions are done, they asked for the same name with the
\* prefix b, one increment was lost, and both objects hold b.conv_1.
C24_Witness ==
    /\ \A t \in DOMAIN threads : threads[t].pc = "done"
    /\ RaceKey(1) = RaceKey(2)
    /\ name_uid_map[RaceKey(1)] = 1
    /\ threads[1].term.fullname = <<"b", ".", "c", "o", "n", "v", "_", "1">>
    /\ threads[2].term.fullname = threads[1].term.fullname
    /\ threads[1].term # NoneVal

----------------------------------------------------------------------------
(* nn/layers/convolution.py: the parser the convolutions share.            *)
(*                                                                         *)
(* containers holds the handles of the module-level PARSER; result holds   *)
(* the parser a kwargparser() call returned, then what it resolved.        *)

\* PARSER after the nine add calls of the module
PARSER ==
    LET RECURSIVE added(_, _)
        added(conts, bindings) ==
            IF bindings = <<>> THEN conts
            ELSE Value({added(c, Tail(bindings)) :
                    c \in {KwargParse_add(conts, bindings[1][1], bindings[1][2],
                                          bindings[1][3])}})
    IN added(<<>>,
             <<<<"filters", None, S(64)>>,
               <<"kernel", "kernel_size", S(3)>>,
               <<"strides", None, S(1)>>,
               <<"bias", "use_bias", Bool(TRUE)>>,
               <<"padding", None, Text(<<"valid">>)>>,
               <<"dilation", "dilation_rate", S(1)>>,
               <<"weight_decay", "kernel_regularizer", Opaque("l2(4e-5)")>>,
               <<"thin", None, Bool(FALSE)>>,
               <<"data_format", None, Opaque("image_data_format()")>>>>)

\* A kwargparser of SubPixelConvolution that adds r to PARSER itself.
kwargparser_InPlace(cls, parser) ==
    IF cls = "SubPixelConvolution"
        THEN [shared |-> KwargParse_add(parser, "r", None, S(2)),
              returned |-> KwargParse_add(parser, "r", None, S(2))]
        ELSE [shared |-> parser, returned |-> parser]

\* cls.kwargparser() for Convolution, TransposeConvolution and
\* SubPixelConvolution, parser being the handles of PARSER: the handles of
\* PARSER after the call, and those of the parser returned.  deepcopy gives
\* an object that shares nothing with PARSER, and add changes the object
\* it is called on.
kwargparser(cls, parser) ==
    IF cls = "SubPixelConvolution"
        THEN [shared |-> parser, returned |-> KwargParse_add(parser, "r", None, S(2))]
        ELSE [shared |-> parser, returned |-> parser]

\* The keywords a layer resolves
TemplateKeywords ==
    LET over(k, v) == {EmptyMap, [x \in {k} |-> v]}
    IN {DictUpdate(DictUpdate(DictUpdate(a, b), DictUpdate(c, d)), DictUpdate(e, f)) :
            a \in over("filters", S(1)), b \in over("kernel", S(5)),
            c \in over("r", S(3)), d \in over("thin", Bool(TRUE)),
            e \in over("padding", Text(<<"same">>)), f \in over("weight_decay", NoneVal)}

InitTemplate ==
    /\ schema = <<>>
    /\ keymap = EmptyMap
    /\ nested = FALSE
    /\ taxonomy = [basename |-> "", proposal |-> "", fullname |-> ""]
    /\ containers = PARSER
    /\ base = NoneVal
    /\ kwargs = EmptyMap
    /\ result = NoneVal
    /\ pc = "init"
    /\ name_uid_map = EmptyMap
    /\ terms = <<>>
    /\ layer = NoneVal
    /\ operators = <<>>
    /\ threads = <<>>

\* parser = cls().kwargparser()
Kwargparser(cls) ==
    /\ \E out \in {kwargparser(cls, containers)} :
        /\ containers' = out.shared
        /\ result' = P(out.returned)
    /\ kwargs' = EmptyMap
    /\ base' = NoneVal
    /\ pc' = cls \o ".kwargparser"
    /\ UNCHANGED <<schema, keymap, nested, taxonomy, name_uid_map, terms,
                   layer, operators, threads>>

\* parser.parse(None, **kw), of the parser the last call returned: parse
\* assigns nothing on the parser.
Resolve(kw) ==
    /\ result.kind = "parse"
    /\ result' = KwargParse_parse(result.containers, NoneVal, kw)
    /\ kwargs' = kw
    /\ base' = NoneVal
    /\ pc' = "KwargParse.parse"
    /\ UNCHANGED <<schema, keymap, nested, taxonomy, containers, name_uid_map, terms,
                   layer, operators, threads>>

NextTemplate ==
    \/ \E cls \in {"Convolution", "TransposeConvolution", "SubPixelConvolution"} :
            Kwargparser(cls)
    \/ \E kw \in TemplateKeywords : Resolve(kw)

SpecTemplate == InitTemplate /\ [][NextTemplate]_vars

\* C29: the module-level PARSER is never contaminated: after any sequence
\* of kwargparser() calls and resolutions it holds exactly the nine
\* bindings filters, kernel, strides, bias, padding, dilation, weight_decay,
\* thin and data_format, in this order, with the keys and defaults they
\* were added with; Convolution and TransposeConvolution are handed PARSER
\* itself, SubPixelConvolution a parser of its own that holds the nine
\* bindings and then r, with no key and the default 2.
C29_TemplateUncontaminated ==
    /\ [i \in DOMAIN containers |-> containers[i].name] =
            <<"filters", "kernel", "strides", "bias", "padding", "dilation",
              "weight_decay", "thin", "data_format">>
    /\ [i \in DOMAIN containers |-> containers[i].key] =
            <<None, "kernel_size", None, "use_bias", None, "dilation_rate",
              "kernel_regularizer", None, None>>
    /\ [i \in DOMAIN containers |-> containers[i].default] =
            <<S(64), S(3), S(1), Bool(TRUE), Text(<<"valid">>), S(1),
              Opaque("l2(4e-5)"), Bool(FALSE), Opaque("image_data_format()")>>
    /\ pc \in {"Convolution.kwargparser", "TransposeConvolution.kwargparser"} =>
            result = P(containers)
    /\ pc = "SubPixelConvolution.kwargparser" =>
            result = P(Append(containers, KwargParseHandle("r", None, S(2))))
    /\ (pc = "KwargParse.parse" /\ "r" \notin DOMAIN result.items) =>
            DOMAIN result.items =
                {"filters", "kernel_size", "strides", "use_bias", "padding",
                 "dilation_rate", "kernel_regularizer", "thin", "data_format"}

\* The private copy resolved an r the caller gave, and PARSER holds no r.
C29_Witness ==
    /\ pc = "KwargParse.parse"
    /\ kwargs = [x \in {"r"} |-> S(3)]
    /\ result.kind = "dict"
    /\ "r" \in DOMAIN result.items
    /\ result.items["r"] = S(3)
    /\ result.items["filters"] = S(64)
    /\ ~HasName(containers, "r")
    /\ Len(containers) = 9

====
